---- MODULE Spec2Model ----
(***************************************************************************)
(* MoodleUpdater: the orchestrator of main() (directory backup, database   *)
(* dump, git clone, CLI upgrade), the operation executors of               *)
(* MoodleBackupManager and the two monitor threads of SystemMonitor.       *)
(*                                                                         *)
(* Spec     the orchestrator, its operation threads and the dump monitors  *)
(* SpecMem  the polling loop of SystemMonitor.monitor_memory_usage         *)
(***************************************************************************)
EXTENDS Integers, Sequences, FiniteSets, TLC

\* The largest int(time.time() - start), in whole seconds, an operation is given.
MaxElapsed == 1
\* The number of polls of the memory monitor that are followed.
MaxPolls == 4

Ops == {"Backup", "Dump", "Deploy"}
Threads == {"t1", "t2"}
Agents == Threads \cup {"main"}
Monitors == {"memory", "progress"}
\* Python's None (a runtime not recorded, a value not yet assigned)
None == -1

VARIABLES
    \* the operator's answers and the configuration (fixed during a run)
    dir_backup, db_dump, git_clone, cli_upgrade, restart_webserver_flag, dry_run,
    \* main()
    pc, mainStep, multithreading, exit_code, webserver, reported,
    \* the agents (main and the two operation threads) and what each still has to run
    prog, tstate, joined, crashed,
    \* the operations
    opState, runner, cliState,
    \* MoodleBackupManager
    runtime_backup, runtime_dump, runtime_clone, treeExists, deployPc,
    \* db_dump and its SystemMonitor
    dumpPc, dumpResult, joinIdx, stop_event, mon,
    \* what the environment did: a command exited nonzero, a call raised
    nonzeroSeen, raiseSeen,
    \* monitor_memory_usage
    previous_critical, previous_warning, previous_low_free_critical,
    previous_low_free_warning, sleep_time, available_memory, free_memory,
    memPc, memPolls, critLogsInDip, recoveryLogs, dipLen, warning_open,
    \* monitor_dump_progress: its locals, the clock, and what its polls did
    last_size, stagnation_time, last_log_time, estimated_total_size, now, progPc,
    found, emitted, unchanged_polls, seen, lastWarning, lastProgress, lastPercent,
    decreased, logs,
    \* git_clone's submodule loop
    subPc, submodule_paths, subIdx, submodules_success, submodules_failed,
    failed_submodules, attempts, updateFailed, syncFailed, restRaised,
    \* run_moodle_check
    gatePc, before_upgrade, force_continue, formatted_message, returncode, error,
    severity, critical_logged, confirm_called, confirm_default, gateOutcome,
    \* moodle_cli_upgrade: the streamed output of upgrade.php
    upPc, linesRead, current_section, error_lines, upgrade_failed,
    upgrade_error_details, upReturncode, lastStream, lastLine, lastClass,
    \* ApplicationSetup and main() up to the start of the operations: the files
    \* and rights found, the operator's answers, the mysqlshow attempts, how the
    \* process ended
    config_exists, template_exists, is_root, dbpass_blank, runPc, answers,
    cancelled, db_attempts, db_failures, reprompted, exit_status, exitCause,
    side_effects,
    \* the external commands of one run: those executed, those only logged as
    \* "[Dry Run] Would run"
    dryPc, executed, would_run, monitors_run, restart_database_flag, submodule_mode,
    \* the report at the end of main(): the wall-clock seconds since start_time,
    \* the runtime lines logged, whether the time-saved line was logged and its figure
    repPc, runtime, runtime_logged, saved_logged, time_saved,
    \* moodle_cli_upgrade as a whole: its arguments, where it is, what happened in
    \* it so far, the site's maintenance mode and how the function ended
    stepPc, moodle_maintenance_mode_flag, stepForce, events, maintenance,
    step_returncode, step_failed,
    \* git_clone's choice between syncing the submodules and restoring them from
    \* a backup: its arguments, the branches entered, the copies run
    sync_submodules, restore_submodules_from_backup, full_backup, entered, copied,
    copyFailed, folderRaised

cfgVars == <<dir_backup, db_dump, git_clone, cli_upgrade, restart_webserver_flag, dry_run>>
mainVars == <<pc, mainStep, multithreading, exit_code, webserver, reported>>
agentVars == <<prog, tstate, joined, crashed>>
opVars == <<opState, runner, cliState>>
mgrVars == <<runtime_backup, runtime_dump, runtime_clone, treeExists, deployPc>>
dumpVars == <<dumpPc, dumpResult, joinIdx, stop_event, mon>>
envVars == <<nonzeroSeen, raiseSeen>>
memVars == <<previous_critical, previous_warning, previous_low_free_critical,
             previous_low_free_warning, sleep_time, available_memory, free_memory,
             memPc, memPolls, critLogsInDip, recoveryLogs, dipLen, warning_open>>
progVars == <<last_size, stagnation_time, last_log_time, estimated_total_size,
              now, progPc, found, emitted, unchanged_polls, seen, lastWarning,
              lastProgress, lastPercent, decreased, logs>>
subVars == <<subPc, submodule_paths, subIdx, submodules_success, submodules_failed,
             failed_submodules, attempts, updateFailed, syncFailed, restRaised>>
gateVars == <<gatePc, before_upgrade, force_continue, formatted_message, returncode,
              error, severity, critical_logged, confirm_called, confirm_default,
              gateOutcome>>
upVars == <<upPc, linesRead, current_section, error_lines, upgrade_failed,
            upgrade_error_details, upReturncode, lastStream, lastLine, lastClass>>
runVars == <<config_exists, template_exists, is_root, dbpass_blank, runPc, answers,
             cancelled, db_attempts, db_failures, reprompted, exit_status,
             exitCause, side_effects>>
dryVars == <<dryPc, executed, would_run, monitors_run, restart_database_flag,
             submodule_mode>>
repVars == <<repPc, runtime, runtime_logged, saved_logged, time_saved>>
stepVars == <<stepPc, moodle_maintenance_mode_flag, stepForce, events, maintenance,
              step_returncode, step_failed>>
resVars == <<sync_submodules, restore_submodules_from_backup, full_backup, entered,
             copied, copyFailed, folderRaised>>
restVars == <<upVars, runVars, dryVars, repVars, stepVars, resVars>>
partVars == <<progVars, subVars, gateVars, restVars>>
orchVars == <<cfgVars, mainVars, agentVars, opVars, mgrVars, dumpVars, envVars>>
vars == <<orchVars, memVars, partVars>>

Selected == {o \in Ops : \/ o = "Backup" /\ dir_backup
                         \/ o = "Dump" /\ db_dump
                         \/ o = "Deploy" /\ git_clone}

(***************************************************************************)
(* The concurrency plan of main(): what each thread runs, and the order in *)
(* which main starts and joins the threads.                                *)
(***************************************************************************)

\* ThreadPrograms with Deploy moved out of Backup's thread.
MutThreadProgramsSplit(b, d, g) ==
    IF b /\ d /\ g THEN [t1 |-> <<"Backup">>, t2 |-> <<"Dump", "Deploy">>]
    ELSE IF b /\ d THEN [t1 |-> <<"Backup">>, t2 |-> <<"Dump">>]
    ELSE IF d /\ g THEN [t1 |-> <<"Dump">>, t2 |-> <<"Deploy">>]
    ELSE [t1 |-> <<>>, t2 |-> <<>>]

\* The targets of the two threads of each multithreaded branch of main():
\* dir_backup_and_git_clone and db_dump; dir_backup and db_dump; db_dump and
\* git_clone.  No thread in the else branch.
ThreadPrograms(b, d, g) ==
    IF b /\ d /\ g THEN [t1 |-> <<"Backup", "Deploy">>, t2 |-> <<"Dump">>]
    ELSE IF b /\ d THEN [t1 |-> <<"Backup">>, t2 |-> <<"Dump">>]
    ELSE IF d /\ g THEN [t1 |-> <<"Dump">>, t2 |-> <<"Deploy">>]
    ELSE [t1 |-> <<>>, t2 |-> <<>>]

\* The else branch of main(): the selected operations one after the other in main.
SequentialProgram(b, d, g) ==
    (IF b THEN <<"Backup">> ELSE <<>>) \o (IF d THEN <<"Dump">> ELSE <<>>)
        \o (IF g THEN <<"Deploy">> ELSE <<>>)

\* Threads whenever two operations are selected.
MutThreadedAnyTwo(b, d, g) == (b /\ d) \/ (d /\ g) \/ (b /\ g)

\* The conditions of the three multithreaded branches of main().
IsThreaded(b, d, g) == (b /\ d) \/ (d /\ g)

\* ThreadedSteps with the first thread joined before the second is started.
MutStepsJoinBetween == <<"start_t1", "join_t1", "start_t2", "join_t2">>

\* ThreadedSteps without the second join.
MutStepsNoSecondJoin == <<"start_t1", "start_t2", "join_t1">>

\* ThreadedSteps without any join.
MutStepsNoJoins == <<"start_t1", "start_t2">>

\* t.start(); t.start(); t.join(); t.join() of each multithreaded branch.
ThreadedSteps == <<"start_t1", "start_t2", "join_t1", "join_t2">>

StepThread(s) == IF s \in {"start_t1", "join_t1"} THEN "t1" ELSE "t2"
IsStart(s) == s \in {"start_t1", "start_t2"}

(***************************************************************************)
(* Initial states.                                                         *)
(***************************************************************************)

MemIdle ==
    /\ previous_critical = FALSE
    /\ previous_warning = FALSE
    /\ previous_low_free_critical = FALSE
    /\ previous_low_free_warning = FALSE
    /\ sleep_time = None
    /\ available_memory = None
    /\ free_memory = None
    /\ memPc = "check"
    /\ memPolls = 0
    /\ critLogsInDip = 0
    /\ recoveryLogs = 0
    /\ dipLen = 0
    /\ warning_open = FALSE

\* monitor_dump_progress before its loop.  Seconds; file sizes and the estimate
\* in whole megabytes.  time.time() is seconds since the epoch, far more than
\* log_interval: StartTime stands for start_time.
CheckInterval == 5
LogInterval == 60
\* A threshold shorter than the log interval.
MutThresholdHalf == LogInterval \div 2
StagnationThreshold == 60
StartTime == 100
MaxTime == 125
MaxSize == 2
SizeSamples == 0 .. MaxSize
EstimateSamples == {1, 2}

ProgIdle ==
    /\ last_size = 0
    /\ stagnation_time = 0
    /\ last_log_time = 0
    /\ estimated_total_size = 1
    /\ now = StartTime + 1
    /\ progPc = "test"
    /\ found = FALSE
    /\ emitted = "none"
    /\ unchanged_polls = 0
    /\ seen = FALSE
    /\ lastWarning = None
    /\ lastProgress = None
    /\ lastPercent = None
    /\ decreased = FALSE
    /\ logs = << >>

\* MoodleBackupManager.__init__: the submodule counters; git_clone not yet at
\* its submodule block.
MaxSubmodules == 3
SubmodulePaths == 1 .. MaxSubmodules

SubIdle ==
    /\ subPc = "sync"
    /\ submodule_paths = << >>
    /\ subIdx = 1
    /\ submodules_success = 0
    /\ submodules_failed = 0
    /\ failed_submodules = << >>
    /\ attempts = [p \in SubmodulePaths |-> 0]
    /\ updateFailed = {}
    /\ syncFailed = FALSE
    /\ restRaised = FALSE

\* run_moodle_check not yet called
GateIdle ==
    /\ gatePc = "start"
    /\ before_upgrade = TRUE
    /\ force_continue = FALSE
    /\ formatted_message = << >>
    /\ returncode = None
    /\ error = FALSE
    /\ severity = "none"
    /\ critical_logged = FALSE
    /\ confirm_called = FALSE
    /\ confirm_default = "none"
    /\ gateOutcome = "running"

\* MoodleBackupManager.__init__: upgrade_failed and upgrade_error_details;
\* moodle_cli_upgrade has started upgrade.php and read nothing yet.
NoDetails == [exit_code |-> None, unexpected |-> FALSE, lines |-> << >>]

UpIdle ==
    /\ upPc = "stream"
    /\ linesRead = 0
    /\ current_section = << >>
    /\ error_lines = << >>
    /\ upgrade_failed = FALSE
    /\ upgrade_error_details = NoDetails
    /\ upReturncode = None
    /\ lastStream = "none"
    /\ lastLine = << >>
    /\ lastClass = "none"

\* The prompts of main() whose answers are yes or no, in the order asked.
Prompts == {"dir_backup", "db_dump", "git_clone", "restart_webserver_flag",
            "verbose", "confirm_installation"}

RunIdle ==
    /\ config_exists = TRUE
    /\ template_exists = TRUE
    /\ is_root = TRUE
    /\ dbpass_blank = FALSE
    /\ runPc = "config"
    /\ answers = [q \in Prompts |-> "none"]
    /\ cancelled = FALSE
    /\ db_attempts = 0
    /\ db_failures = 0
    /\ reprompted = FALSE
    /\ exit_status = None
    /\ exitCause = "none"
    /\ side_effects = {}

DryIdle ==
    /\ dryPc = "mysqlshow"
    /\ executed = {}
    /\ would_run = {}
    /\ monitors_run = FALSE
    /\ restart_database_flag = FALSE
    /\ submodule_mode = "sync"

RepIdle ==
    /\ repPc = "plan"
    /\ runtime = 0
    /\ runtime_logged = {}
    /\ saved_logged = FALSE
    /\ time_saved = 0

StepIdle ==
    /\ stepPc = "start"
    /\ moodle_maintenance_mode_flag = FALSE
    /\ stepForce = FALSE
    /\ events = << >>
    /\ maintenance = "off"
    /\ step_returncode = None
    /\ step_failed = FALSE

ResIdle ==
    /\ sync_submodules = TRUE
    /\ restore_submodules_from_backup = FALSE
    /\ full_backup = FALSE
    /\ entered = {}
    /\ copied = << >>
    /\ copyFailed = None
    /\ folderRaised = FALSE

RestIdle == UpIdle /\ RunIdle /\ DryIdle /\ RepIdle /\ StepIdle /\ ResIdle

PartsIdle == ProgIdle /\ SubIdle /\ GateIdle /\ RestIdle

OrchStart ==
    /\ pc = "check_selected"
    /\ mainStep = 1
    /\ multithreading = FALSE
    /\ exit_code = None
    /\ webserver = "up"
    /\ reported = {}
    /\ prog = [a \in Agents |-> <<>>]
    /\ tstate = [t \in Threads |-> "unstarted"]
    /\ joined = {}
    /\ crashed = {}
    /\ opState = [o \in Ops |-> "idle"]
    /\ runner = [o \in Ops |-> "none"]
    /\ cliState = "idle"
    /\ runtime_backup = None
    /\ runtime_dump = None
    /\ runtime_clone = None
    /\ treeExists = TRUE
    /\ deployPc = "idle"
    /\ dumpPc = "idle"
    /\ dumpResult = "none"
    /\ joinIdx = 1
    /\ stop_event = FALSE
    /\ mon = [m \in Monitors |-> "unstarted"]
    /\ nonzeroSeen = FALSE
    /\ raiseSeen = FALSE

Init ==
    /\ dir_backup \in BOOLEAN
    /\ db_dump \in BOOLEAN
    /\ git_clone \in BOOLEAN
    /\ cli_upgrade \in BOOLEAN
    /\ restart_webserver_flag \in BOOLEAN
    /\ dry_run \in BOOLEAN
    /\ OrchStart
    /\ MemIdle
    /\ PartsIdle

(***************************************************************************)
(* main(): selection check, webserver stop, the plan, start and join.      *)
(***************************************************************************)

\* "Abort if no tasks were selected": sys.exit(1) before anything is started.
CheckSelected ==
    /\ pc = "check_selected"
    /\ IF Selected = {}
       THEN pc' = "exited" /\ exit_code' = 1
       ELSE pc' = "web_stop" /\ exit_code' = exit_code
    /\ UNCHANGED <<cfgVars, mainStep, multithreading, webserver, reported,
                   agentVars, opVars, mgrVars, dumpVars, envVars, memVars, partVars>>

\* if restart_webserver_flag: service_manager.restart_webserver("stop")
WebStop ==
    /\ pc = "web_stop"
    /\ webserver' = IF restart_webserver_flag THEN "down" ELSE webserver
    /\ pc' = "plan"
    /\ UNCHANGED <<cfgVars, mainStep, multithreading, exit_code, reported,
                   agentVars, opVars, mgrVars, dumpVars, envVars, memVars, partVars>>

\* The if/elif/else on (dir_backup, db_dump, git_clone): build the threads or
\* fall to the sequential branch.
Plan ==
    /\ pc = "plan"
    /\ IF IsThreaded(dir_backup, db_dump, git_clone)
       THEN /\ multithreading' = TRUE
            /\ prog' = [a \in Agents |->
                          IF a = "main" THEN <<>>
                          ELSE ThreadPrograms(dir_backup, db_dump, git_clone)[a]]
            /\ pc' = "threads"
       ELSE /\ multithreading' = multithreading
            /\ prog' = [a \in Agents |->
                          IF a = "main"
                          THEN SequentialProgram(dir_backup, db_dump, git_clone)
                          ELSE <<>>]
            /\ pc' = "seq"
    /\ UNCHANGED <<cfgVars, mainStep, exit_code, webserver, reported,
                   tstate, joined, crashed, opVars, mgrVars, dumpVars, envVars, memVars, partVars>>

\* main after its step mainStep of ThreadedSteps.
AfterStep ==
    /\ mainStep' = mainStep + 1
    /\ pc' = IF mainStep + 1 > Len(ThreadedSteps) THEN "cli" ELSE pc

\* t.start()
MainStart(t) ==
    /\ pc = "threads"
    /\ mainStep <= Len(ThreadedSteps)
    /\ IsStart(ThreadedSteps[mainStep])
    /\ StepThread(ThreadedSteps[mainStep]) = t
    /\ tstate[t] = "unstarted"
    /\ tstate' = [tstate EXCEPT ![t] = "running"]
    /\ AfterStep
    /\ UNCHANGED <<cfgVars, multithreading, exit_code, webserver, reported,
                   prog, joined, crashed, opVars, mgrVars, dumpVars, envVars, memVars, partVars>>

\* t.join(): blocks until the thread has terminated.
MainJoin(t) ==
    /\ pc = "threads"
    /\ mainStep <= Len(ThreadedSteps)
    /\ ~IsStart(ThreadedSteps[mainStep])
    /\ StepThread(ThreadedSteps[mainStep]) = t
    /\ tstate[t] = "dead"
    /\ joined' = joined \cup {t}
    /\ AfterStep
    /\ UNCHANGED <<cfgVars, multithreading, exit_code, webserver, reported,
                   prog, tstate, crashed, opVars, mgrVars, dumpVars, envVars, memVars, partVars>>

(***************************************************************************)
(* An agent (main in the sequential branch, a thread otherwise) runs the   *)
(* operations of its program in order.                                     *)
(***************************************************************************)

Active(a) == IF a = "main" THEN pc = "seq" ELSE tstate[a] = "running"

Current(a, o) == Active(a) /\ prog[a] # <<>> /\ Head(prog[a]) = o

\* The executor returns to its caller: the next operation of the agent, or the
\* end of the thread / of the sequential branch.
Return(a) ==
    /\ prog' = [prog EXCEPT ![a] = Tail(@)]
    /\ IF a = "main"
       THEN /\ pc' = IF Tail(prog[a]) = <<>> THEN "cli" ELSE pc
            /\ tstate' = tstate
       ELSE /\ pc' = pc
            /\ tstate' = [tstate EXCEPT ![a] = IF Tail(prog[a]) = <<>> THEN "dead" ELSE @]
    /\ UNCHANGED <<crashed, exit_code>>

\* An exception leaves the executor: nothing above it catches, so a thread dies
\* with the rest of its program not run, and main() ends with a traceback.
Propagate(a) ==
    /\ prog' = prog
    /\ crashed' = crashed \cup {a}
    /\ IF a = "main"
       THEN pc' = "crashed" /\ exit_code' = 1 /\ tstate' = tstate
       ELSE pc' = pc /\ exit_code' = exit_code
            /\ tstate' = [tstate EXCEPT ![a] = "dead"]

Elapsed == 0 .. MaxElapsed

(***************************************************************************)
(* dir_backup: rsync, with only CalledProcessError caught.                 *)
(***************************************************************************)

\* What subprocess.run(['rsync', ...], check=True) and the size walk can do:
\* succeed, exit nonzero (CalledProcessError), or raise something else
\* (rsync not installed, a file vanishing under os.walk).  Dry run: a log line.
BackupOutcomes == IF dry_run THEN {"ok"} ELSE {"ok", "nonzero", "raise"}

\* except subprocess.CalledProcessError
BackupCaught(out) == out = "nonzero"

BackupBegin(a) ==
    /\ Current(a, "Backup")
    /\ opState["Backup"] = "idle"
    /\ opState' = [opState EXCEPT !["Backup"] = "running"]
    /\ runner' = [runner EXCEPT !["Backup"] = a]
    /\ UNCHANGED <<cfgVars, mainVars, agentVars, cliState, mgrVars, dumpVars,
                   envVars, memVars, partVars>>

BackupEnd(a) ==
    /\ opState["Backup"] = "running"
    /\ runner["Backup"] = a
    /\ \E out \in BackupOutcomes, e \in Elapsed :
         /\ nonzeroSeen' = (nonzeroSeen \/ out = "nonzero")
         /\ raiseSeen' = (raiseSeen \/ out = "raise")
         /\ IF out = "ok" \/ BackupCaught(out)
            THEN /\ runtime_backup' = e
                 /\ opState' = [opState EXCEPT !["Backup"] = "ended"]
                 /\ Return(a)
            ELSE /\ runtime_backup' = runtime_backup
                 /\ opState' = [opState EXCEPT !["Backup"] = "raised"]
                 /\ Propagate(a)
    /\ UNCHANGED <<cfgVars, mainStep, multithreading, webserver, reported, joined,
                   runner, cliState, runtime_dump, runtime_clone, treeExists,
                   deployPc, dumpVars, memVars, partVars>>

(***************************************************************************)
(* db_dump: start_monitoring, the dump in try/except/finally,              *)
(* stop_monitoring in the finally, the runtime only on the success path.   *)
(***************************************************************************)

\* The try body: mysqldump succeeds, exits nonzero (CalledProcessError), or the
\* dump file cannot be opened (IOError/OSError).  Dry run: a log line and a sleep.
DumpOutcomes == IF dry_run THEN {"ok"} ELSE {"ok", "nonzero", "ioerror"}

\* StopMonitoringJoins without the join of the progress thread.
MutJoinMemoryOnly == <<"memory">>

\* stop_monitoring: memory_thread.join(), then dump_thread.join()
StopMonitoringJoins == <<"memory", "progress">>

\* start = time.time(); monitor.start_monitoring(dump_file): both threads started
DumpBegin(a) ==
    /\ Current(a, "Dump")
    /\ opState["Dump"] = "idle"
    /\ opState' = [opState EXCEPT !["Dump"] = "running"]
    /\ runner' = [runner EXCEPT !["Dump"] = a]
    /\ mon' = [m \in Monitors |-> "check"]
    /\ dumpPc' = "try"
    /\ UNCHANGED <<cfgVars, mainVars, agentVars, cliState, mgrVars, dumpResult,
                   joinIdx, stop_event, envVars, memVars, partVars>>

\* the try body; both except clauses log and return through the finally
DumpRun(a) ==
    /\ dumpPc = "try"
    /\ runner["Dump"] = a
    /\ \E out \in DumpOutcomes :
         /\ dumpResult' = out
         /\ nonzeroSeen' = (nonzeroSeen \/ out = "nonzero")
         /\ raiseSeen' = (raiseSeen \/ out = "ioerror")
    /\ dumpPc' = "finally"
    /\ UNCHANGED <<cfgVars, mainVars, agentVars, opVars, mgrVars, joinIdx,
                   stop_event, mon, memVars, partVars>>

\* DumpStop that goes on to the joins without setting the event.
MutDumpStopNoSet(a) ==
    /\ dumpPc = "finally"
    /\ runner["Dump"] = a
    /\ dumpPc' = "join"
    /\ UNCHANGED <<cfgVars, mainVars, agentVars, opVars, mgrVars, dumpResult,
                   joinIdx, stop_event, mon, envVars, memVars, partVars>>

\* finally: monitor.stop_monitoring() -- self.stop_event.set()
DumpStop(a) ==
    /\ dumpPc = "finally"
    /\ runner["Dump"] = a
    /\ stop_event' = TRUE
    /\ dumpPc' = "join"
    /\ UNCHANGED <<cfgVars, mainVars, agentVars, opVars, mgrVars, dumpResult,
                   joinIdx, mon, envVars, memVars, partVars>>

\* ... then the joins of stop_monitoring, each blocking until its thread is dead
DumpJoin(a) ==
    /\ dumpPc = "join"
    /\ runner["Dump"] = a
    /\ joinIdx <= Len(StopMonitoringJoins)
    /\ mon[StopMonitoringJoins[joinIdx]] = "dead"
    /\ joinIdx' = joinIdx + 1
    /\ UNCHANGED <<cfgVars, mainVars, agentVars, opVars, mgrVars, dumpPc,
                   dumpResult, stop_event, mon, envVars, memVars, partVars>>

\* after the finally: `return` on the two except paths, else
\* self.runtime_dump = int(time.time() - start)
DumpReturn(a) ==
    /\ dumpPc = "join"
    /\ runner["Dump"] = a
    /\ joinIdx > Len(StopMonitoringJoins)
    /\ \E e \in Elapsed :
         runtime_dump' = IF dumpResult = "ok" THEN e ELSE runtime_dump
    /\ dumpPc' = "returned"
    /\ opState' = [opState EXCEPT !["Dump"] = "ended"]
    /\ Return(a)
    /\ UNCHANGED <<cfgVars, mainStep, multithreading, webserver, reported, joined,
                   runner, cliState, runtime_backup, runtime_clone, treeExists,
                   deployPc, dumpResult, joinIdx, stop_event, mon, envVars, memVars, partVars>>

(***************************************************************************)
(* The two monitor threads, by their control flow:                         *)
(*   while not self.stop_event.is_set(): <poll>; time.sleep(...)           *)
(***************************************************************************)

\* the loop test finds the event clear: one poll, then the sleep begins
MonPoll(m) ==
    /\ mon[m] = "check"
    /\ ~stop_event
    /\ mon' = [mon EXCEPT ![m] = "sleep"]
    /\ UNCHANGED <<cfgVars, mainVars, agentVars, opVars, mgrVars, dumpPc,
                   dumpResult, joinIdx, stop_event, envVars, memVars, partVars>>

\* time.sleep returns
MonWake(m) ==
    /\ mon[m] = "sleep"
    /\ mon' = [mon EXCEPT ![m] = "check"]
    /\ UNCHANGED <<cfgVars, mainVars, agentVars, opVars, mgrVars, dumpPc,
                   dumpResult, joinIdx, stop_event, envVars, memVars, partVars>>

\* the loop test finds the event set: the loop ends and the thread terminates
MonExit(m) ==
    /\ mon[m] = "check"
    /\ stop_event
    /\ mon' = [mon EXCEPT ![m] = "dead"]
    /\ UNCHANGED <<cfgVars, mainVars, agentVars, opVars, mgrVars, dumpPc,
                   dumpResult, joinIdx, stop_event, envVars, memVars, partVars>>

\* a poll raises (no "Mem" line from `free`, os.path.getsize on a vanished
\* file): nothing in the thread catches, the thread terminates
MonRaise(m) ==
    /\ mon[m] = "check"
    /\ ~stop_event
    /\ mon' = [mon EXCEPT ![m] = "dead"]
    /\ UNCHANGED <<cfgVars, mainVars, agentVars, opVars, mgrVars, dumpPc,
                   dumpResult, joinIdx, stop_event, envVars, memVars, partVars>>

(***************************************************************************)
(* git_clone: rmtree, git clone, checkout, submodules, config.php, chown.  *)
(***************************************************************************)

\* subprocess.run(['git', 'clone', ...], check=True) under
\* except CalledProcessError: into a tree that rmtree left in place git exits
\* nonzero; otherwise it succeeds, exits nonzero leaving nothing behind, exits
\* nonzero leaving a tree (the clone worked, its checkout did not), or the call
\* itself raises (git not installed).
CloneOutcomes ==
    IF treeExists THEN {"nonzero", "raise"}
    ELSE {"ok", "nonzero", "nonzero_tree", "raise"}

\* start = time.time(); shutil.rmtree(clone_path) with both excepts logging only
DeployBegin(a) ==
    /\ Current(a, "Deploy")
    /\ opState["Deploy"] = "idle"
    /\ opState' = [opState EXCEPT !["Deploy"] = "running"]
    /\ runner' = [runner EXCEPT !["Deploy"] = a]
    /\ IF treeExists /\ ~dry_run
       THEN \E removed \in BOOLEAN : treeExists' = ~removed
       ELSE treeExists' = treeExists
    /\ deployPc' = "clone"
    /\ UNCHANGED <<cfgVars, mainVars, agentVars, cliState, runtime_backup,
                   runtime_dump, runtime_clone, dumpVars, envVars, memVars, partVars>>

\* git clone (not in a dry run)
DeployClone(a) ==
    /\ deployPc = "clone"
    /\ runner["Deploy"] = a
    /\ IF dry_run
       THEN /\ deployPc' = "finish"
            /\ UNCHANGED <<treeExists, opState, prog, tstate, crashed, pc,
                           exit_code, envVars>>
       ELSE \E out \in CloneOutcomes :
              /\ nonzeroSeen' = (nonzeroSeen \/ out \in {"nonzero", "nonzero_tree"})
              /\ raiseSeen' = (raiseSeen \/ out = "raise")
              /\ treeExists' = (treeExists \/ out \in {"ok", "nonzero_tree"})
              /\ IF out = "raise"
                 THEN /\ deployPc' = "raised"
                      /\ opState' = [opState EXCEPT !["Deploy"] = "raised"]
                      /\ Propagate(a)
                 ELSE /\ deployPc' = "finish"
                      /\ UNCHANGED <<opState, prog, tstate, crashed, pc, exit_code>>
    /\ UNCHANGED <<cfgVars, mainStep, multithreading, webserver, reported, joined,
                   runner, cliState, runtime_backup, runtime_dump, runtime_clone,
                   dumpVars, memVars, partVars>>

\* checkout and submodules (their CalledProcessError caught), then
\* open(clone_path/config.php, 'w') outside any try: it raises when the clone
\* left no directory.  Then chown (caught) and self.runtime_clone.
DeployFinish(a) ==
    /\ deployPc = "finish"
    /\ runner["Deploy"] = a
    /\ IF ~dry_run /\ ~treeExists
       THEN /\ deployPc' = "raised"
            /\ opState' = [opState EXCEPT !["Deploy"] = "raised"]
            /\ runtime_clone' = runtime_clone
            /\ nonzeroSeen' = nonzeroSeen
            /\ Propagate(a)
       ELSE /\ deployPc' = "returned"
            /\ opState' = [opState EXCEPT !["Deploy"] = "ended"]
            /\ \E e \in Elapsed : runtime_clone' = e
            /\ \E chownFails \in {FALSE, ~dry_run} :
                 nonzeroSeen' = (nonzeroSeen \/ chownFails)
            /\ Return(a)
    /\ UNCHANGED <<cfgVars, mainStep, multithreading, webserver, reported, joined,
                   runner, cliState, runtime_backup, runtime_dump, treeExists,
                   dumpVars, raiseSeen, memVars, partVars>>

(***************************************************************************)
(* After the operation phase: CLI upgrade, webserver start, the report.    *)
(***************************************************************************)

\* moodle_cli_upgrade as a whole: it ends normally (the upgrade having worked
\* or failed), or run_moodle_check stops the run with sys.exit(1).
CliOutcomes == IF dry_run THEN {"ok"} ELSE {"ok", "failed", "halt"}

\* CLI upgrade not selected
CliSkip ==
    /\ pc = "cli"
    /\ ~cli_upgrade
    /\ pc' = "web_start"
    /\ UNCHANGED <<cfgVars, mainStep, multithreading, exit_code, webserver, reported,
                   agentVars, opVars, mgrVars, dumpVars, envVars, memVars, partVars>>

\* backup_manager.moodle_cli_upgrade(...) is called once main is past the
\* operation phase
CliBegin ==
    /\ pc = "cli"
    /\ cli_upgrade
    /\ cliState' = "running"
    /\ pc' = "cli_run"
    /\ UNCHANGED <<cfgVars, mainStep, multithreading, exit_code, webserver, reported,
                   agentVars, opState, runner, mgrVars, dumpVars, envVars, memVars, partVars>>

CliEnd ==
    /\ pc = "cli_run"
    /\ \E out \in CliOutcomes :
         IF out = "halt"
         THEN cliState' = "halted" /\ pc' = "exited" /\ exit_code' = 1
         ELSE cliState' = "ended" /\ pc' = "web_start" /\ exit_code' = exit_code
    /\ UNCHANGED <<cfgVars, mainStep, multithreading, webserver, reported,
                   agentVars, opState, runner, mgrVars, dumpVars, envVars, memVars, partVars>>

\* if restart_webserver_flag: service_manager.restart_webserver("start")
WebStart ==
    /\ pc = "web_start"
    /\ webserver' = IF restart_webserver_flag THEN "up" ELSE webserver
    /\ pc' = "report"
    /\ UNCHANGED <<cfgVars, mainStep, multithreading, exit_code, reported,
                   agentVars, opVars, mgrVars, dumpVars, envVars, memVars, partVars>>

\* `if runtime_x:` -- None and 0 are both falsy
Truthy(r) == r # None /\ r # 0

\* The runtime lines of the report: one per operation whose runtime is truthy.
ReportLines ==
    {o \in Ops : \/ o = "Backup" /\ Truthy(runtime_backup)
                 \/ o = "Dump" /\ Truthy(runtime_dump)
                 \/ o = "Deploy" /\ Truthy(runtime_clone)}

Report ==
    /\ pc = "report"
    /\ reported' = ReportLines
    /\ pc' = "done"
    /\ exit_code' = 0
    /\ UNCHANGED <<cfgVars, mainStep, multithreading, webserver,
                   agentVars, opVars, mgrVars, dumpVars, envVars, memVars, partVars>>

Next ==
    \/ CheckSelected
    \/ WebStop
    \/ Plan
    \/ \E t \in Threads : MainStart(t)
    \/ \E t \in Threads : MainJoin(t)
    \/ \E a \in Agents : BackupBegin(a)
    \/ \E a \in Agents : BackupEnd(a)
    \/ \E a \in Agents : DumpBegin(a)
    \/ \E a \in Agents : DumpRun(a)
    \/ \E a \in Agents : DumpStop(a)
    \/ \E a \in Agents : DumpJoin(a)
    \/ \E a \in Agents : DumpReturn(a)
    \/ \E m \in Monitors : MonPoll(m)
    \/ \E m \in Monitors : MonWake(m)
    \/ \E m \in Monitors : MonExit(m)
    \/ \E m \in Monitors : MonRaise(m)
    \/ \E a \in Agents : DeployBegin(a)
    \/ \E a \in Agents : DeployClone(a)
    \/ \E a \in Agents : DeployFinish(a)
    \/ CliSkip
    \/ CliBegin
    \/ CliEnd
    \/ WebStart
    \/ Report

Spec == Init /\ [][Next]_vars

(***************************************************************************)
(* Properties of the orchestrator (specification Spec).                    *)
(***************************************************************************)

Done(o) == opState[o] \in {"ended", "raised"}

\* main is past the operation phase
PostPhase == {"cli", "cli_run", "web_start", "report", "done"}

\* C1: when Backup and Deploy are both selected (with or without Dump), Deploy
\* starts only after Backup has ended, and the two are never in progress at the
\* same time.
C1_BackupBeforeDeploy ==
    (dir_backup /\ git_clone) =>
        /\ ~(opState["Backup"] = "running" /\ opState["Deploy"] = "running")
        /\ (opState["Deploy"] # "idle" => opState["Backup"] = "ended")

\* Deploy is running after Backup has ended, in the thread both share, with Dump
\* running in the other thread.
C1_Witness ==
    /\ dir_backup /\ git_clone /\ db_dump
    /\ opState["Backup"] = "ended"
    /\ opState["Deploy"] = "running"
    /\ opState["Dump"] = "running"
    /\ runner["Backup"] = runner["Deploy"]

\* C2: when Dump and at least one of Backup, Deploy are selected, Dump runs in
\* a thread of its own, both threads are started before main joins either, and
\* Dump is the first operation of its thread, so it waits for nothing.
C2_DumpInOwnThread ==
    (db_dump /\ (dir_backup \/ git_clone)) =>
        /\ (pc = "threads" /\ mainStep <= Len(ThreadedSteps)
               /\ ~IsStart(ThreadedSteps[mainStep]))
             => \A t \in Threads : tstate[t] # "unstarted"
        /\ joined # {} => \A t \in Threads : tstate[t] # "unstarted"
        /\ (pc \notin {"check_selected", "web_stop", "plan"} /\ opState["Dump"] = "idle")
             => \E t \in Threads : prog[t] # <<>> /\ Head(prog[t]) = "Dump"
        /\ opState["Dump"] # "idle"
             => /\ runner["Dump"] \in Threads
                /\ \A o \in {"Backup", "Deploy"} : runner[o] # runner["Dump"]

\* Dump and Backup are in progress at the same time, neither thread joined yet.
C2_Witness ==
    /\ db_dump /\ dir_backup
    /\ opState["Dump"] = "running"
    /\ opState["Backup"] = "running"
    /\ joined = {}

\* An operation that will never run: the thread that had it died before reaching it.
Abandoned(o) == \E t \in Threads : t \in crashed /\ \E i \in 1 .. Len(prog[t]) : prog[t][i] = o

C4_JoinBeforePostPhase ==
    (pc \in PostPhase \/ pc = "exited") =>
        \A t \in Threads : tstate[t] # "running" /\ (tstate[t] = "dead" => t \in joined)

\* The report is written after two threads ran and were joined.
C4_Witness ==
    /\ pc = "done"
    /\ multithreading
    /\ joined = Threads
    /\ \A t \in Threads : tstate[t] = "dead"

\* C5 (as claimed): the report of a run that reaches its end has one runtime
\* line for each selected operation, whatever the outcome of each.
C5_OneOutcomePerSelected ==
    pc = "done" => reported = Selected

\* C5 (as claimed), leaving aside the runs in which an operation took less than
\* one whole second.
C5_OneOutcomePerSelectedSlow ==
    (pc = "done" /\ 0 \notin {runtime_backup, runtime_dump, runtime_clone})
        => reported = Selected

\* C6 (as claimed): when the only failures are nonzero exits of external
\* commands, main does not raise, and once main is past the operation phase
\* every selected operation has been started.
C6_NonzeroExitAbortsNothing ==
    ~raiseSeen =>
        /\ pc # "crashed"
        /\ pc \in PostPhase => \A o \in Selected : opState[o] # "idle"

\* C7 (as claimed): no exception leaves an executor; neither a thread nor main
\* dies of one.
C7_NoExceptionLeavesExecutor ==
    /\ crashed = {}
    /\ \A o \in Ops : opState[o] # "raised"

\* What an agent has still to launch: its program without the operation it is
\* in, or died in.
Pending(a) ==
    IF prog[a] # <<>> /\ opState[Head(prog[a])] # "idle" /\ runner[Head(prog[a])] = a
    THEN Tail(prog[a]) ELSE prog[a]

\* How many times the operation is still to be launched, over all agents.
Due(o) ==
    LET n(a) == Cardinality({i \in 1 .. Len(Pending(a)) : Pending(a)[i] = o})
    IN n("main") + n("t1") + n("t2")

\* Each operation is launched, or due to be launched, once in all when it is
\* selected and never when it is not.
PlanCovers ==
    \A o \in Ops :
        /\ opState[o] # "idle" => o \in Selected
        /\ pc \notin {"check_selected", "web_stop", "plan", "exited"}
             => Due(o) + (IF opState[o] # "idle" THEN 1 ELSE 0)
                  = (IF o \in Selected THEN 1 ELSE 0)

\* C30 (as claimed): for every selection the plan launches each selected
\* operation exactly once and no other, so that once main is past the
\* operation phase every selected operation has been launched; and no more
\* than two operation threads exist.
C30_EverySelectedLaunchedOnce ==
    /\ PlanCovers
    /\ pc \in PostPhase => \A o \in Selected : opState[o] # "idle"
    /\ Cardinality({t \in Threads : tstate[t] = "running"}) <= 2

\* main() has ended: it returned, left through sys.exit, or died of an exception.
MainEnded == pc \in {"done", "exited", "crashed"}

\* With the webserver restart selected: an operation runs only with the
\* webserver stopped, and the webserver is up again only once no operation is
\* running and every started thread has been joined.
WebStoppedAroundOperations ==
    restart_webserver_flag =>
        /\ \A o \in Ops : opState[o] # "idle" =>
              (webserver = "down" \/ pc \in {"report", "done"})
        /\ (webserver = "up" /\ pc \notin {"check_selected", "web_stop", "exited"}) =>
              /\ \A o \in Ops : opState[o] # "running"
              /\ \A t \in Threads : tstate[t] # "running" /\ (tstate[t] = "dead" => t \in joined)

\* C34 (as claimed): with the webserver restart selected the webserver is
\* stopped before any operation starts and started again only after every
\* operation has finished and been joined, and no run that stopped it ends,
\* whether an operation failed or raised, with the webserver still stopped.
C34_WebserverStartedAgain ==
    /\ WebStoppedAroundOperations
    /\ MainEnded => webserver = "up"

\* C8: once db_dump has returned, on whichever path, the stop event is set and
\* both monitor threads have terminated.
C8_MonitorsJoinedBeforeReturn ==
    dumpPc = "returned" =>
        /\ stop_event
        /\ \A m \in Monitors : mon[m] = "dead"

\* db_dump has returned after mysqldump exited nonzero; both monitors are dead.
C8_Witness ==
    /\ dumpPc = "returned"
    /\ dumpResult = "nonzero"
    /\ \A m \in Monitors : mon[m] = "dead"

(***************************************************************************)
(* SystemMonitor.monitor_memory_usage, sample by sample.  Memory is in MB  *)
(* as `free -t -m` prints it; sleep_time is in tenths of a second.         *)
(***************************************************************************)

CriticalMB == 250
WarningMB == 500
LowFreeCriticalMB == 125
LowFreeMB == 250
SleepCritical == 5
SleepWarning == 10
SleepLowFree == 20
SleepNormal == 50

\* The readings of `free` that are explored: below, between and above the thresholds.
AvailSamples == {100, 250, 300, 500, 600}
FreeSamples == {100, 125, 200, 250}

\* A critical state that is never left.
MutCriticalSticky(avail) == avail < CriticalMB \/ previous_critical

\* if available_memory < 250: ... elif previous_critical and available_memory >= 250: ...
CriticalLogged(avail) == avail < CriticalMB
CriticalRecoveryLogged(avail) == ~(avail < CriticalMB) /\ previous_critical /\ avail >= CriticalMB
CriticalAfter(avail) ==
    IF avail < CriticalMB THEN TRUE
    ELSE IF previous_critical /\ avail >= CriticalMB THEN FALSE
    ELSE previous_critical
SleepAfterCritical(avail) == IF avail < CriticalMB THEN SleepCritical ELSE sleep_time

\* if available_memory < 500: ... elif previous_warning and available_memory >= 500: ...
\* (previous_critical is read after the first chain has updated it)
WarningLogged(avail) == avail < WarningMB /\ ~previous_warning /\ ~CriticalAfter(avail)
WarningRecoveryLogged(avail) == ~(avail < WarningMB) /\ previous_warning /\ avail >= WarningMB
WarningAfter(avail) ==
    IF avail < WarningMB THEN TRUE
    ELSE IF previous_warning /\ avail >= WarningMB THEN FALSE
    ELSE previous_warning
SleepAfterWarning(avail) == IF avail < WarningMB THEN SleepWarning ELSE SleepAfterCritical(avail)

\* if free_memory < 125 and available_memory > 500: ...
\* elif previous_low_free_critical and free_memory >= 125: ...
LowFreeCriticalAfter(avail, free) ==
    IF free < LowFreeCriticalMB /\ avail > WarningMB THEN TRUE
    ELSE IF previous_low_free_critical /\ free >= LowFreeCriticalMB THEN FALSE
    ELSE previous_low_free_critical
SleepAfterLowFreeCritical(avail, free) ==
    IF free < LowFreeCriticalMB /\ avail > WarningMB THEN SleepCritical
    ELSE SleepAfterWarning(avail)

\* if free_memory < 250 and available_memory > 500: ...
\* elif previous_low_free_warning and free_memory >= 250: ...
\* else: sleep_time = 5
LowFreeWarningAfter(avail, free) ==
    IF free < LowFreeMB /\ avail > WarningMB THEN TRUE
    ELSE IF previous_low_free_warning /\ free >= LowFreeMB THEN FALSE
    ELSE previous_low_free_warning
SleepAfterPoll(avail, free) ==
    IF free < LowFreeMB /\ avail > WarningMB THEN SleepLowFree
    ELSE IF previous_low_free_warning /\ free >= LowFreeMB
         THEN SleepAfterLowFreeCritical(avail, free)
    ELSE SleepNormal

\* One iteration of the loop: the event is clear, `free` is read, the four
\* if/elif chains run in order, and time.sleep(sleep_time) begins.
MemPoll ==
    /\ memPc = "check"
    /\ ~stop_event
    /\ memPolls < MaxPolls
    /\ \E avail \in AvailSamples, free \in FreeSamples :
         /\ available_memory' = avail
         /\ free_memory' = free
         /\ previous_critical' = CriticalAfter(avail)
         /\ previous_warning' = WarningAfter(avail)
         /\ previous_low_free_critical' = LowFreeCriticalAfter(avail, free)
         /\ previous_low_free_warning' = LowFreeWarningAfter(avail, free)
         /\ sleep_time' = SleepAfterPoll(avail, free)
         /\ dipLen' = IF avail < CriticalMB THEN dipLen + 1 ELSE 0
         /\ critLogsInDip' =
              (IF dipLen = 0 /\ avail < CriticalMB THEN 0 ELSE critLogsInDip)
                + (IF CriticalLogged(avail) THEN 1 ELSE 0)
         /\ recoveryLogs' =
              (IF dipLen = 0 /\ avail < CriticalMB THEN 0 ELSE recoveryLogs)
                + (IF CriticalRecoveryLogged(avail) THEN 1 ELSE 0)
         /\ warning_open' = IF WarningLogged(avail) THEN TRUE
                             ELSE IF WarningRecoveryLogged(avail) THEN FALSE
                             ELSE warning_open
    /\ memPolls' = memPolls + 1
    /\ memPc' = "sleep"
    /\ UNCHANGED <<orchVars, partVars>>

\* time.sleep(sleep_time) returns
MemWake ==
    /\ memPc = "sleep"
    /\ memPc' = "check"
    /\ UNCHANGED <<orchVars, partVars, previous_critical, previous_warning,
                   previous_low_free_critical, previous_low_free_warning, sleep_time,
                   available_memory, free_memory, memPolls, critLogsInDip,
                   recoveryLogs, dipLen, warning_open>>

\* stop_monitoring, from the dump's thread: self.stop_event.set()
MemStop ==
    /\ ~stop_event
    /\ stop_event' = TRUE
    /\ UNCHANGED <<cfgVars, mainVars, agentVars, opVars, mgrVars, dumpPc, dumpResult,
                   joinIdx, mon, envVars, memVars, partVars>>

\* the loop test finds the event set: "Memory monitoring stopped."
MemExit ==
    /\ memPc = "check"
    /\ stop_event
    /\ memPc' = "stopped"
    /\ UNCHANGED <<orchVars, partVars, previous_critical, previous_warning,
                   previous_low_free_critical, previous_low_free_warning, sleep_time,
                   available_memory, free_memory, memPolls, critLogsInDip,
                   recoveryLogs, dipLen, warning_open>>

\* A dump is under way in a thread of its own and has started its monitor.
InitMem ==
    /\ dir_backup = FALSE
    /\ db_dump = TRUE
    /\ git_clone = FALSE
    /\ cli_upgrade = FALSE
    /\ restart_webserver_flag = FALSE
    /\ dry_run = FALSE
    /\ OrchStart
    /\ MemIdle
    /\ PartsIdle

NextMem ==
    \/ MemPoll
    \/ MemWake
    \/ MemStop
    \/ MemExit

SpecMem == InitMem /\ [][NextMem]_vars

(***************************************************************************)
(* Properties of the memory monitor (specification SpecMem).               *)
(***************************************************************************)

\* C9 (as claimed): within one dip of available memory below 250 MB exactly one
\* entering-critical log is emitted, however many polls the dip lasts, and its
\* recovery is logged exactly once.
C9_OneCriticalLogPerDip ==
    /\ dipLen > 0 => critLogsInDip = 1 /\ recoveryLogs = 0
    /\ (dipLen = 0 /\ critLogsInDip > 0) => critLogsInDip = 1 /\ recoveryLogs = 1

\* The interval the claim gives for a sample.
ClaimedSleep(avail, free) ==
    IF avail < CriticalMB THEN SleepCritical
    ELSE IF avail < WarningMB THEN SleepWarning
    ELSE IF free < LowFreeMB /\ avail > WarningMB THEN SleepLowFree
    ELSE SleepNormal

\* C10 (as claimed): the sleep that follows a poll is the one the state of the
\* sample just read fixes: 0.5 s critical, 1 s warning, 2 s low free, 5 s otherwise.
C10_SleepFollowsState ==
    memPc = "sleep" => sleep_time = ClaimedSleep(available_memory, free_memory)

\* C35: once a poll has been completed, previous_critical is true exactly
\* when the sample last read has available memory below 250 MB and
\* previous_warning exactly when it has it below 500 MB; so previous_critical
\* implies previous_warning.
C35_FlagsFollowSample ==
    /\ memPolls > 0 =>
          /\ previous_critical <=> available_memory < CriticalMB
          /\ previous_warning <=> available_memory < WarningMB
    /\ previous_critical => previous_warning

\* Between two polls, after a sample in the warning range that followed a
\* critical one: previous_critical reset, previous_warning still set.
C35_Witness ==
    /\ memPc = "sleep"
    /\ memPolls > 1
    /\ available_memory = 300
    /\ recoveryLogs = 1
    /\ ~previous_critical
    /\ previous_warning

\* A poll of the loop that logs the recovery from the warning state, and one
\* that logs the entry into it.
LogsWarningRecovery == memPolls' = memPolls + 1 /\ WarningRecoveryLogged(available_memory')
LogsWarningEntry == memPolls' = memPolls + 1 /\ WarningLogged(available_memory')

\* C36 (as claimed): every warning-recovery log follows a warning-entry log
\* emitted since the previous warning recovery, also after a fall from normal
\* straight into the critical range; entry and recovery logs alternate,
\* starting with an entry.
C36_WarningLogsAlternate ==
    [][/\ LogsWarningRecovery => warning_open
       /\ LogsWarningEntry => ~warning_open]_vars

(***************************************************************************)
(* A dump alone, with its two monitors, under the fairness that preemptive *)
(* OS threads give: a sleep that is over returns, a loop test that finds   *)
(* the event set ends the loop, a join on a dead thread returns.           *)
(***************************************************************************)

InitStop ==
    /\ dir_backup = FALSE
    /\ db_dump = TRUE
    /\ git_clone = FALSE
    /\ cli_upgrade = FALSE
    /\ restart_webserver_flag \in BOOLEAN
    /\ dry_run \in BOOLEAN
    /\ OrchStart
    /\ MemIdle
    /\ PartsIdle

NextStop ==
    \/ CheckSelected
    \/ WebStop
    \/ Plan
    \/ \E a \in Agents : DumpBegin(a)
    \/ \E a \in Agents : DumpRun(a)
    \/ \E a \in Agents : DumpStop(a)
    \/ \E a \in Agents : DumpJoin(a)
    \/ \E a \in Agents : DumpReturn(a)
    \/ \E m \in Monitors : MonPoll(m)
    \/ \E m \in Monitors : MonWake(m)
    \/ \E m \in Monitors : MonExit(m)
    \/ \E m \in Monitors : MonRaise(m)

FairStop ==
    /\ \A m \in Monitors : WF_vars(MonWake(m)) /\ WF_vars(MonExit(m))
    /\ \A a \in Agents : WF_vars(DumpJoin(a)) /\ WF_vars(DumpReturn(a))

SpecStop == InitStop /\ [][NextStop]_vars /\ FairStop

(***************************************************************************)
(* Properties of stopping the monitors (specification SpecStop).           *)
(***************************************************************************)

MonitorsDead == \A m \in Monitors : mon[m] = "dead"

\* C11: once the stop event is set no monitor takes another sample after its
\* next loop test (from the test it can only leave the loop), both monitor
\* threads eventually terminate, and stop_monitoring, once at its joins,
\* eventually returns.
C11_StopAlwaysSucceeds ==
    /\ [][\A m \in Monitors :
            (stop_event /\ mon[m] = "check") => mon'[m] \in {"check", "dead"}]_vars
    /\ stop_event ~> MonitorsDead
    /\ (dumpPc = "join") ~> (dumpPc = "returned")

\* The event was set while both monitors were alive; both are dead and db_dump
\* has returned.
C11_Witness ==
    /\ stop_event
    /\ MonitorsDead
    /\ dumpPc = "returned"
    /\ dumpResult = "ok"

(***************************************************************************)
(* SystemMonitor.monitor_dump_progress: one poll per loop iteration on     *)
(* the file the environment shows it, then a sleep of check_interval that  *)
(* may overrun by one more interval.                                       *)
(***************************************************************************)

\* Resets only when the file has grown.
MutStagnationOnShrink(current_size, last, st) ==
    IF current_size <= last THEN st + CheckInterval ELSE 0

StagnationAfter(current_size, last, st) ==
    IF current_size = last THEN st + CheckInterval ELSE 0

\* Logs on every change of size.
MutLogDueAlways(t, last) == TRUE

LogDue(t, last) == t - last >= LogInterval

\* Percentage of what is still to be written.
MutPercentRemaining(size_mb, estimate) == ((estimate - size_mb) * 100) \div estimate

Percent(size_mb, estimate) == (size_mb * 100) \div estimate

\* A warning at every poll of a stagnation past the threshold.
MutWarnedUnlimited(current_size, last, st, t, lastlog) ==
    /\ current_size = last
    /\ StagnationAfter(current_size, last, st) >= StagnationThreshold

StagnationWarned(current_size, last, st, t, lastlog) ==
    /\ current_size = last
    /\ StagnationAfter(current_size, last, st) >= StagnationThreshold
    /\ LogDue(t, lastlog)

ProgressLogged(current_size, last, t, lastlog) ==
    /\ current_size # last
    /\ LogDue(t, lastlog)

\* A missing file counts as a file that has not grown.
MutAbsentCounts ==
    /\ stagnation_time' = stagnation_time + CheckInterval
    /\ unchanged_polls' = unchanged_polls + 1
    /\ found' = FALSE
    /\ emitted' = "none"
    /\ UNCHANGED <<last_size, last_log_time, seen, lastWarning, lastProgress,
                   lastPercent, decreased, logs>>

\* os.path.exists(dump_file) is false: the body of the loop is skipped
PollAbsent ==
    /\ found' = FALSE
    /\ emitted' = "none"
    /\ UNCHANGED <<last_size, stagnation_time, last_log_time, unchanged_polls,
                   seen, lastWarning, lastProgress, lastPercent, decreased, logs>>

PollFound(current_size) ==
    LET warned == StagnationWarned(current_size, last_size, stagnation_time,
                                   now, last_log_time)
        logged == ProgressLogged(current_size, last_size, now, last_log_time)
    IN  /\ found' = TRUE
        /\ seen' = TRUE
        /\ stagnation_time' = StagnationAfter(current_size, last_size, stagnation_time)
        /\ last_log_time' = IF warned \/ logged THEN now ELSE last_log_time
        /\ last_size' = current_size
        /\ emitted' = IF warned THEN "warning"
                      ELSE IF logged THEN "progress" ELSE "none"
        /\ unchanged_polls' = IF current_size = last_size
                              THEN unchanged_polls + 1 ELSE 0
        /\ lastWarning' = IF current_size # last_size THEN None
                          ELSE IF warned THEN now ELSE lastWarning
        /\ lastProgress' = IF logged THEN now ELSE lastProgress
        /\ lastPercent' = IF logged THEN Percent(current_size, estimated_total_size)
                          ELSE lastPercent
        /\ decreased' = (decreased \/ current_size < last_size)
        /\ logs' = IF warned THEN Append(logs, [kind |-> "warning", time |-> now])
                   ELSE IF logged THEN Append(logs, [kind |-> "progress", time |-> now])
                   ELSE logs

ProgPoll ==
    /\ progPc = "test"
    /\ ~stop_event
    /\ \/ PollAbsent
       \/ \E current_size \in SizeSamples : PollFound(current_size)
    /\ progPc' = "sleep"
    /\ UNCHANGED <<orchVars, memVars, subVars, gateVars, restVars, estimated_total_size, now>>

\* time.sleep(check_interval)
ProgSleep ==
    /\ progPc = "sleep"
    /\ \E overrun \in {0, CheckInterval} :
          /\ now + CheckInterval + overrun <= StartTime + MaxTime
          /\ now' = now + CheckInterval + overrun
    /\ progPc' = "test"
    /\ UNCHANGED <<orchVars, memVars, subVars, gateVars, restVars, last_size, stagnation_time, last_log_time,
                   estimated_total_size, found, emitted, unchanged_polls, seen,
                   lastWarning, lastProgress, lastPercent, decreased, logs>>

\* stop_monitoring: self.stop_event.set()
ProgStop ==
    /\ ~stop_event
    /\ stop_event' = TRUE
    /\ UNCHANGED <<cfgVars, mainVars, agentVars, opVars, mgrVars, dumpPc,
                   dumpResult, joinIdx, mon, envVars, memVars, partVars>>

\* while not self.stop_event.is_set(): the test fails
ProgExit ==
    /\ progPc = "test"
    /\ stop_event
    /\ progPc' = "stopped"
    /\ UNCHANGED <<orchVars, memVars, subVars, gateVars, restVars, last_size, stagnation_time, last_log_time,
                   estimated_total_size, now, found, emitted, unchanged_polls,
                   seen, lastWarning, lastProgress, lastPercent, decreased, logs>>

InitProg ==
    /\ dir_backup = FALSE
    /\ db_dump = TRUE
    /\ git_clone = FALSE
    /\ cli_upgrade = FALSE
    /\ restart_webserver_flag = FALSE
    /\ dry_run = FALSE
    /\ OrchStart
    /\ MemIdle
    /\ SubIdle
    /\ GateIdle
    /\ RestIdle
    /\ last_size = 0
    /\ stagnation_time = 0
    /\ last_log_time = 0
    /\ estimated_total_size \in EstimateSamples
    /\ now = StartTime + 1
    /\ progPc = "test"
    /\ found = FALSE
    /\ emitted = "none"
    /\ unchanged_polls = 0
    /\ seen = FALSE
    /\ lastWarning = None
    /\ lastProgress = None
    /\ lastPercent = None
    /\ decreased = FALSE
    /\ logs = << >>

NextProg ==
    \/ ProgPoll
    \/ ProgSleep
    \/ ProgStop
    \/ ProgExit

SpecProg == InitProg /\ [][NextProg]_vars

(***************************************************************************)
(* Properties of the progress tracker (specification SpecProg).            *)
(***************************************************************************)

PollStep == progPc = "test" /\ progPc' = "sleep"

\* C12: on a poll that finds the file, stagnation_time grows by exactly the
\* poll interval when the size equals the size of the previous poll and becomes
\* 0 when it differs; so stagnation_time is always the poll interval times the
\* number of consecutive unchanged polls since the last change.
C12_StagnationArithmetic ==
    /\ [][(PollStep /\ found') =>
            stagnation_time' = IF last_size' = last_size
                               THEN stagnation_time + CheckInterval ELSE 0]_vars
    /\ [](stagnation_time = CheckInterval * unchanged_polls)

\* Three unchanged polls in a row after the file was seen at another size.
C12_Witness ==
    /\ unchanged_polls = 3
    /\ stagnation_time = 3 * CheckInterval
    /\ last_size > 0

\* C13: with the default parameters a stagnation warning is logged at the poll
\* where stagnation_time first reaches the threshold, and a later warning of
\* the same stagnation comes at least log_interval after the one before it.
C13_StagnationWarningTiming ==
    [][PollStep =>
        /\ (found' /\ stagnation_time < StagnationThreshold
                   /\ stagnation_time' >= StagnationThreshold)
              => emitted' = "warning"
        /\ (emitted' = "warning" /\ lastWarning # None)
              => now - lastWarning >= LogInterval]_vars

\* A second warning of one stagnation has just been logged, after a progress
\* line had been logged before the stagnation began.
C13_Witness ==
    /\ emitted = "warning"
    /\ stagnation_time >= StagnationThreshold + LogInterval
    /\ lastWarning = last_log_time
    /\ lastProgress # None

\* C14: a progress line is logged only on a poll where the size has changed and
\* at least log_interval seconds have passed since the tracker's previous log,
\* so two progress lines are at least log_interval apart.
C14_ProgressLogsApart ==
    [][(PollStep /\ emitted' = "progress") =>
        /\ last_size' # last_size
        /\ now - last_log_time >= LogInterval
        /\ lastProgress # None => now - lastProgress >= LogInterval]_vars

\* A second progress line has just been logged.
C14_Witness ==
    /\ emitted = "progress"
    /\ lastProgress = last_log_time
    /\ lastProgress >= StartTime + 1 + LogInterval
    /\ lastWarning = None
    /\ stagnation_time = 0

\* C37: stagnation warnings and progress lines share one rate limiter: any two
\* consecutive logs of the tracker, of whichever kinds, are at least
\* log_interval seconds apart, and the first poll that qualifies for a log (a
\* changed size, or a stagnation at the threshold) logs it.
C37_OneRateLimiter ==
    /\ [](\A i \in 1 .. Len(logs) - 1 : logs[i + 1].time - logs[i].time >= LogInterval)
    /\ [][(PollStep /\ found' /\ logs = << >>
              /\ (last_size' # last_size \/ stagnation_time' >= StagnationThreshold))
            => logs' # << >>]_vars

\* A stagnation warning, then, the file growing again, a progress line.
C37_Witness ==
    /\ Len(logs) = 2
    /\ logs[1].kind = "warning"
    /\ logs[2].kind = "progress"
    /\ emitted = "progress"

\* C15: a poll that does not find the file changes none of last_size,
\* stagnation_time and last_log_time and logs nothing; until a poll has found
\* the file the tracker is as it started.
C15_AbsentFileIsNoOp ==
    /\ [][(PollStep /\ ~found') =>
            /\ UNCHANGED <<last_size, stagnation_time, last_log_time>>
            /\ emitted' = "none"]_vars
    /\ [](~seen => /\ last_size = 0
                   /\ stagnation_time = 0
                   /\ last_log_time = 0
                   /\ emitted = "none")

\* The file was missing at the last poll, after polls that had found it
\* unchanged.
C15_Witness ==
    /\ progPc = "sleep"
    /\ ~found
    /\ seen
    /\ stagnation_time > 0
    /\ last_log_time > 0

\* C16: while no poll has seen the file smaller than the poll before, the
\* percentage of a progress line is at least that of the progress line before.
C16_PercentNonDecreasing ==
    [][(PollStep /\ emitted' = "progress" /\ ~decreased' /\ lastPercent # None)
          => lastPercent' >= lastPercent]_vars

\* A second progress line with a higher percentage, the file never seen
\* smaller.
C16_Witness ==
    /\ emitted = "progress"
    /\ ~decreased
    /\ lastPercent = Percent(MaxSize, estimated_total_size)
    /\ lastProgress >= StartTime + 1 + LogInterval
    /\ estimated_total_size = 2

(***************************************************************************)
(* MoodleBackupManager.git_clone with sync_submodules, not a dry run: the   *)
(* submodule block and what follows it.  A submodule path is a number.     *)
(***************************************************************************)

notSub == <<orchVars, memVars, progVars, gateVars, restVars>>

\* git submodule sync: a nonzero exit is logged and nothing else
SubSync ==
    /\ subPc = "sync"
    /\ \E failed \in BOOLEAN : syncFailed' = failed
    /\ subPc' = "status"
    /\ UNCHANGED <<notSub, submodule_paths, subIdx, submodules_success,
                   submodules_failed, failed_submodules, attempts, updateFailed,
                   restRaised>>

\* git submodule status: one line per submodule, blank lines skipped
SubStatus ==
    /\ subPc = "status"
    /\ \E n \in 0 .. MaxSubmodules : submodule_paths' = [i \in 1 .. n |-> i]
    /\ subPc' = "update"
    /\ UNCHANGED <<notSub, subIdx, submodules_success, submodules_failed,
                   failed_submodules, attempts, updateFailed, syncFailed,
                   restRaised>>

\* A failed update ends the loop.
MutCountAbort(ok) ==
    /\ submodules_success' = IF ok THEN submodules_success + 1 ELSE submodules_success
    /\ submodules_failed' = IF ok THEN submodules_failed ELSE submodules_failed + 1
    /\ failed_submodules' = IF ok THEN failed_submodules
                            ELSE Append(failed_submodules, submodule_paths[subIdx])
    /\ subIdx' = IF ok THEN subIdx + 1 ELSE Len(submodule_paths) + 1

\* try: update; submodules_success += 1 / except CalledProcessError:
\* submodules_failed += 1; failed_submodules.append(submodule_path)
Count(ok) ==
    /\ submodules_success' = IF ok THEN submodules_success + 1 ELSE submodules_success
    /\ submodules_failed' = IF ok THEN submodules_failed ELSE submodules_failed + 1
    /\ failed_submodules' = IF ok THEN failed_submodules
                            ELSE Append(failed_submodules, submodule_paths[subIdx])
    /\ subIdx' = subIdx + 1

\* one iteration of the for loop: git submodule update -- submodule_path
SubUpdate ==
    /\ subPc = "update"
    /\ subIdx <= Len(submodule_paths)
    /\ \E ok \in BOOLEAN :
          /\ Count(ok)
          /\ updateFailed' = IF ok THEN updateFailed
                             ELSE updateFailed \cup {submodule_paths[subIdx]}
    /\ attempts' = [attempts EXCEPT ![submodule_paths[subIdx]] = @ + 1]
    /\ UNCHANGED <<notSub, subPc, submodule_paths, syncFailed, restRaised>>

\* the loop is exhausted: the summary line
SubSummary ==
    /\ subPc = "update"
    /\ subIdx > Len(submodule_paths)
    /\ subPc' = "rest"
    /\ UNCHANGED <<notSub, submodule_paths, subIdx, submodules_success,
                   submodules_failed, failed_submodules, attempts, updateFailed,
                   syncFailed, restRaised>>

\* config.php copy and chown, then self.runtime_clone; the copy may raise
SubRest ==
    /\ subPc = "rest"
    /\ \E raised \in BOOLEAN :
          /\ restRaised' = raised
          /\ subPc' = IF raised THEN "raised" ELSE "completed"
    /\ UNCHANGED <<notSub, submodule_paths, subIdx, submodules_success,
                   submodules_failed, failed_submodules, attempts, updateFailed,
                   syncFailed>>

InitSub ==
    /\ dir_backup = FALSE
    /\ db_dump = FALSE
    /\ git_clone = TRUE
    /\ cli_upgrade = FALSE
    /\ restart_webserver_flag = FALSE
    /\ dry_run = FALSE
    /\ OrchStart
    /\ MemIdle
    /\ PartsIdle

NextSub ==
    \/ SubSync
    \/ SubStatus
    \/ SubUpdate
    \/ SubSummary
    \/ SubRest

SpecSub == InitSub /\ [][NextSub]_vars

(***************************************************************************)
(* Properties of the submodule loop (specification SpecSub).               *)
(***************************************************************************)

Range(f) == {f[i] : i \in DOMAIN f}

\* C17: of N discovered submodules of which k updates fail, each is attempted
\* exactly once, the loop goes on after a failure, and once the loop is over
\* successes = N - k, failures = k, the failed list is the k failing paths, and
\* git_clone goes on to its remaining steps, ending raised only if one of those
\* raised.
C17_SubmoduleCounters ==
    /\ [][(subPc = "update" /\ subIdx < Len(submodule_paths))
             => (subPc' = "update" /\ subIdx' = subIdx + 1)]_vars
    /\ [](subPc \in {"rest", "completed", "raised"} =>
            /\ \A p \in Range(submodule_paths) : attempts[p] = 1
            /\ submodules_success = Len(submodule_paths) - Cardinality(updateFailed)
            /\ submodules_failed = Cardinality(updateFailed)
            /\ Len(failed_submodules) = Cardinality(updateFailed)
            /\ Range(failed_submodules) = updateFailed)
    /\ [](subPc = "raised" => restRaised)

\* Three submodules, the first and the last failed, and git_clone completed.
C17_Witness ==
    /\ subPc = "completed"
    /\ Len(submodule_paths) = 3
    /\ updateFailed = {1, 3}
    /\ failed_submodules = <<1, 3>>
    /\ submodules_success = 1

(***************************************************************************)
(* MoodleBackupManager.run_moodle_check.  The output of checks.php is a    *)
(* short sequence of words; a marker is in the message when one of its     *)
(* words is the marker.                                                    *)
(***************************************************************************)

MaxWords == 2
Words == {"CRITICAL", "ERROR", "WARNING", "OK", "other"}
Messages == UNION {[1 .. n -> Words] : n \in 0 .. MaxWords}
ExitCodes == {0, 1}

Contains(message, marker) == \E i \in DOMAIN message : message[i] = marker

\* WARNING is looked for before CRITICAL and ERROR.
MutClassifyWarningFirst(message) ==
    IF Contains(message, "WARNING") THEN "warning"
    ELSE IF Contains(message, "CRITICAL") \/ Contains(message, "ERROR") THEN "error"
    ELSE IF Contains(message, "OK") THEN "ok"
    ELSE "unclassified"

\* if "CRITICAL" in ... or "ERROR" in ... / elif "WARNING" / elif "OK" / else
Classify(message) ==
    IF Contains(message, "CRITICAL") \/ Contains(message, "ERROR") THEN "error"
    ELSE IF Contains(message, "WARNING") THEN "warning"
    ELSE IF Contains(message, "OK") THEN "ok"
    ELSE "unclassified"

AutoContinueChoice(before) == IF before THEN "n" ELSE "y"

notGate == <<orchVars, memVars, progVars, subVars, restVars>>

\* subprocess.run(['php', checks.php]) returns: classify the output, then log
\* critical on a nonzero exit code
GateCheck ==
    /\ gatePc = "start"
    /\ \E out \in Messages, rc \in ExitCodes :
          /\ formatted_message' = out
          /\ returncode' = rc
          /\ severity' = Classify(out)
          /\ error' = (Classify(out) = "error")
          /\ critical_logged' = (rc # 0)
    /\ gatePc' = "gate"
    /\ UNCHANGED <<notGate, before_upgrade, force_continue, confirm_called,
                   confirm_default, gateOutcome>>

\* subprocess.run raises: except Exception logs critical and sets error
GateCheckRaises ==
    /\ gatePc = "start"
    /\ error' = TRUE
    /\ critical_logged' = TRUE
    /\ gatePc' = "gate"
    /\ UNCHANGED <<notGate, before_upgrade, force_continue, formatted_message,
                   returncode, severity, confirm_called, confirm_default,
                   gateOutcome>>

\* The pause does not look at force_continue.
MutGateIgnoresForce(err, force) == err

\* `if error:` and, inside it, `if not force_continue:`
GateTriggers(err, force) == err /\ ~force

\* `if error:` / `if not force_continue:` not both taken: the check returns
GatePass ==
    /\ gatePc = "gate"
    /\ ~GateTriggers(error, force_continue)
    /\ gateOutcome' = "returned"
    /\ gatePc' = "ended"
    /\ UNCHANGED <<notGate, before_upgrade, force_continue, formatted_message,
                   returncode, error, severity, critical_logged, confirm_called,
                   confirm_default>>

\* ApplicationSetup.confirm(question, auto_continue_choice, timeout): confirm
\* takes (question, default=''), so the call raises TypeError before any prompt;
\* the call is outside run_moodle_check's try
GateConfirm ==
    /\ gatePc = "gate"
    /\ GateTriggers(error, force_continue)
    /\ confirm_called' = TRUE
    /\ confirm_default' = AutoContinueChoice(before_upgrade)
    /\ gateOutcome' = "raised"
    /\ gatePc' = "ended"
    /\ UNCHANGED <<notGate, before_upgrade, force_continue, formatted_message,
                   returncode, error, severity, critical_logged>>

InitGate ==
    /\ dir_backup = FALSE
    /\ db_dump = FALSE
    /\ git_clone = FALSE
    /\ cli_upgrade = TRUE
    /\ restart_webserver_flag = FALSE
    /\ dry_run = FALSE
    /\ OrchStart
    /\ MemIdle
    /\ ProgIdle
    /\ SubIdle
    /\ RestIdle
    /\ gatePc = "start"
    /\ before_upgrade \in BOOLEAN
    /\ force_continue \in BOOLEAN
    /\ formatted_message = << >>
    /\ returncode = None
    /\ error = FALSE
    /\ severity = "none"
    /\ critical_logged = FALSE
    /\ confirm_called = FALSE
    /\ confirm_default = "none"
    /\ gateOutcome = "running"

NextGate ==
    \/ GateCheck
    \/ GateCheckRaises
    \/ GatePass
    \/ GateConfirm

SpecGate == InitGate /\ [][NextGate]_vars

(***************************************************************************)
(* Properties of the health check and its gate (specification SpecGate).   *)
(***************************************************************************)

HasErrorMarker ==
    Contains(formatted_message, "CRITICAL") \/ Contains(formatted_message, "ERROR")

\* C18: the output is of class error exactly when it contains CRITICAL or
\* ERROR; otherwise warning exactly when it contains WARNING; otherwise ok
\* exactly when it contains OK; otherwise unclassified.  With exit code 0 an
\* output of class warning, ok or unclassified never reaches the confirmation
\* and the check returns.
C18_ClassificationPriority ==
    /\ returncode # None =>
          /\ severity = "error" <=> HasErrorMarker
          /\ severity = "warning" <=>
                (~HasErrorMarker /\ Contains(formatted_message, "WARNING"))
          /\ severity = "ok" <=>
                /\ ~HasErrorMarker
                /\ ~Contains(formatted_message, "WARNING")
                /\ Contains(formatted_message, "OK")
          /\ severity \in {"error", "warning", "ok", "unclassified"}
    /\ (returncode = 0 /\ severity \in {"warning", "ok", "unclassified"}) =>
          /\ ~confirm_called
          /\ gatePc = "ended" => gateOutcome = "returned"

\* An output with WARNING after OK was classified warning and the check
\* returned without asking, force-continue off.
C18_Witness ==
    /\ gatePc = "ended"
    /\ formatted_message = <<"OK", "WARNING">>
    /\ severity = "warning"
    /\ returncode = 0
    /\ ~force_continue
    /\ gateOutcome = "returned"

\* C19: a check that exits nonzero is logged critical whatever it printed and,
\* with force-continue off, reaches the operator confirmation.
C19_NonzeroExitGates ==
    (gatePc = "ended" /\ returncode \notin {0, None} /\ ~force_continue) =>
        /\ critical_logged
        /\ confirm_called

\* C20: output with CRITICAL, exit code 0, before the upgrade, force-continue
\* off, no operator input: the confirmation returns the default "n" and the
\* check ends the run with sys.exit(1).
C20_TimeoutTakesDefault ==
    (/\ gatePc = "ended"
     /\ Contains(formatted_message, "CRITICAL")
     /\ returncode = 0
     /\ before_upgrade
     /\ ~force_continue) => gateOutcome = "exit1"

\* C21: output with CRITICAL or ERROR, exit code 0, after the upgrade,
\* force-continue off, no operator input: the confirmation returns the default
\* "y" and the check returns, so the run goes on.
C21_PostTimeoutContinues ==
    (/\ gatePc = "ended"
     /\ HasErrorMarker
     /\ returncode = 0
     /\ ~before_upgrade
     /\ ~force_continue) => gateOutcome = "returned"

\* C22: with force-continue on, whatever the check printed, whatever its exit
\* code, and also when running it raised, in either phase, the confirmation is
\* never called and the check returns.
C22_ForceContinueNeverHalts ==
    force_continue =>
        /\ ~confirm_called
        /\ gatePc = "ended" => gateOutcome = "returned"

\* Force-continue on, the check command raised, and the check returned.
C22_Witness ==
    /\ force_continue
    /\ gatePc = "ended"
    /\ error
    /\ returncode = None
    /\ critical_logged
    /\ gateOutcome = "returned"

(***************************************************************************)
(* MoodleBackupManager.moodle_cli_upgrade, not a dry run: reading the      *)
(* output of upgrade.php line by line, then the exit code.  A line is a    *)
(* sequence of words, blank lines are skipped before classification.       *)
(***************************************************************************)

MaxLines == 3
Streams == {"stdout", "stderr"}
LineSamples ==
    { <<"==", "Core", "==">>, <<"==", "ERROR", "==">>, <<"==">>,
      <<"==", "!!", "==">>, <<"!!", "Core">>, <<"!!", "ERROR">>, <<"!!", "==">>,
      <<"ERROR">>, <<"Core", "Failed">>, <<"Core", "==">>, <<"Core">> }

\* Matching is case-sensitive.
MutLowerIdentity(word) == word

\* line.lower(), word by word
Lower(word) ==
    IF word = "ERROR" THEN "error"
    ELSE IF word = "Failed" THEN "failed"
    ELSE word

\* line.startswith('==') and line.endswith('==')
Framed(line) == line[1] = "==" /\ line[Len(line)] = "=="

\* line.startswith('!!')
Explicit(line) == line[1] = "!!"

\* 'error' in line.lower() or 'failed' in line.lower()
SoftWarning(line) == \E i \in DOMAIN line : Lower(line[i]) \in {"error", "failed"}

\* line.strip('= ')
SectionName(line) ==
    LET kept == {i \in DOMAIN line : line[i] # "=="}
    IN  IF kept = {} THEN << >>
        ELSE SubSeq(line, CHOOSE i \in kept : \A j \in kept : i <= j,
                          CHOOSE i \in kept : \A j \in kept : i >= j)

\* the if / elif chain for a line of stdout; a line of stderr is always a
\* warning
LineClass(stream, line) ==
    IF stream = "stderr" THEN "soft"
    ELSE IF Framed(line) THEN "section"
    ELSE IF Explicit(line) THEN "explicit"
    ELSE IF SoftWarning(line) THEN "soft"
    ELSE "info"

\* f"{current_section}: {line}" if current_section else line
ErrorDetail(section, line) == [section |-> section, line |-> line]

notUp == <<orchVars, memVars, progVars, subVars, gateVars, runVars, dryVars, repVars, stepVars, resVars>>

\* one non-blank line read from one of the two pipes
UpLine ==
    /\ upPc = "stream"
    /\ linesRead < MaxLines
    /\ \E stream \in Streams, line \in LineSamples :
          LET class == LineClass(stream, line)
          IN  /\ lastStream' = stream
              /\ lastLine' = line
              /\ lastClass' = class
              /\ current_section' = IF class = "section" THEN SectionName(line)
                                    ELSE current_section
              /\ error_lines' =
                    IF class = "explicit"
                    THEN Append(error_lines, ErrorDetail(current_section, line))
                    ELSE IF class = "soft"
                    THEN Append(error_lines, ErrorDetail(<< >>, line))
                    ELSE error_lines
    /\ linesRead' = linesRead + 1
    /\ UNCHANGED <<notUp, upPc, upgrade_failed, upgrade_error_details, upReturncode>>

\* if process.returncode != 0: append "Exit code: ..." and every error line
DetailsAfterExit(rc, lines) ==
    IF rc # 0 THEN [exit_code |-> rc, unexpected |-> FALSE, lines |-> lines]
    ELSE NoDetails

\* both pipes are drained and process.wait() returns
UpExit ==
    /\ upPc = "stream"
    /\ \E rc \in ExitCodes :
          /\ upReturncode' = rc
          /\ upgrade_failed' = (rc # 0)
          /\ upgrade_error_details' = DetailsAfterExit(rc, error_lines)
    /\ upPc' = "done"
    /\ UNCHANGED <<notUp, linesRead, current_section, error_lines, lastStream,
                   lastLine, lastClass>>

\* except Exception: upgrade_failed and "Unexpected error: ..."
UpRaise ==
    /\ upPc = "stream"
    /\ upgrade_failed' = TRUE
    /\ upgrade_error_details' = [NoDetails EXCEPT !.unexpected = TRUE]
    /\ upPc' = "done"
    /\ UNCHANGED <<notUp, linesRead, current_section, error_lines, upReturncode,
                   lastStream, lastLine, lastClass>>

InitUp ==
    /\ dir_backup = FALSE
    /\ db_dump = FALSE
    /\ git_clone = FALSE
    /\ cli_upgrade = TRUE
    /\ restart_webserver_flag = FALSE
    /\ dry_run = FALSE
    /\ OrchStart
    /\ MemIdle
    /\ PartsIdle

NextUp ==
    \/ UpLine
    \/ UpExit
    \/ UpRaise

SpecUp == InitUp /\ [][NextUp]_vars

(***************************************************************************)
(* Properties of the upgrade output (specification SpecUp).                *)
(***************************************************************************)

LineStep == linesRead' = linesRead + 1

HasErrorWord(line) == \E i \in DOMAIN line : line[i] \in {"ERROR", "Failed"}

\* What the four rules, taken in order, do with a line.
ByTheRules(line) ==
    IF Framed(line)
    THEN /\ current_section' = SectionName(line)
         /\ error_lines' = error_lines
    ELSE IF Explicit(line)
    THEN /\ error_lines' = Append(error_lines, ErrorDetail(current_section, line))
         /\ current_section' = current_section
    ELSE IF HasErrorWord(line)
    THEN /\ error_lines' = Append(error_lines, ErrorDetail(<< >>, line))
         /\ current_section' = current_section
    ELSE UNCHANGED <<error_lines, current_section>>

\* C23 as stated: every line of the streamed output, from either pipe, is
\* handled by the first matching rule of: framed as a section, prefixed !!,
\* containing error or failed in any case, otherwise informational and not
\* recorded.
C23_EveryLineByTheRules == [][LineStep => ByTheRules(lastLine')]_vars

\* C23: every line of stdout is handled by the first matching rule of: framed
\* as a section (new current section, nothing recorded), prefixed !! (recorded
\* with the current section when one is set), containing error or failed in
\* any case (recorded as it is), otherwise not recorded; every line of stderr
\* is recorded as it is and changes no section.
C23_StdoutLineByTheRules ==
    [][LineStep =>
         /\ lastStream' = "stdout" => ByTheRules(lastLine')
         /\ lastStream' = "stderr" =>
               /\ error_lines' = Append(error_lines, ErrorDetail(<< >>, lastLine'))
               /\ current_section' = current_section]_vars

\* A section line that holds the word ERROR opened the section, and a !! line
\* of stdout after it was recorded under that section.
C23_Witness ==
    /\ lastStream = "stdout"
    /\ lastLine = <<"!!", "ERROR">>
    /\ current_section = <<"ERROR">>
    /\ error_lines = <<ErrorDetail(<<"ERROR">>, <<"!!", "ERROR">>)>>
    /\ linesRead = 2

\* C24: once the upgrade has exited, its error details hold every recorded
\* error and warning line and the exit code, whatever the exit code is.
C24_DetailsWhateverExitCode ==
    (upPc = "done" /\ upReturncode # None /\ error_lines # << >>) =>
        /\ upgrade_error_details.lines = error_lines
        /\ upgrade_error_details.exit_code = upReturncode

(***************************************************************************)
(* ApplicationSetup and main() from the configuration check to the end of  *)
(* the process: the prompts, the database check before the dump, and the   *)
(* exit status.  The operations themselves are one step here.              *)
(***************************************************************************)

Inputs == {"y", "n", "c", "", "x"}

\* Cancel is taken as a no.
MutConfirmCancelIsNo(user_input, default) ==
    IF user_input = "y" THEN "yes"
    ELSE IF user_input \in {"n", "c"} THEN "no"
    ELSE IF default # "" /\ user_input = "" THEN (IF default = "y" THEN "yes" ELSE "no")
    ELSE "again"

\* confirm(question, default): y, n, c (exit(1)), Enter with a default, or ask
\* again
Confirm(user_input, default) ==
    IF user_input = "c" THEN "exit"
    ELSE IF user_input = "y" THEN "yes"
    ELSE IF user_input = "n" THEN "no"
    ELSE IF default # "" /\ user_input = "" THEN (IF default = "y" THEN "yes" ELSE "no")
    ELSE "again"

Default(q) ==
    CASE q = "verbose" -> "n"
      [] q = "confirm_installation" -> ""
      [] OTHER -> "y"

\* The services stopped before the operator is asked to confirm.
MutRunStepsServicesFirst == <<"services", "confirm_installation", "operations">>

\* main() from the last prompt on: the confirmation, start_time and the
\* services, the operations.
RunSteps == <<"confirm_installation", "services", "operations">>

AfterRunStep(p) ==
    LET i == CHOOSE k \in 1 .. Len(RunSteps) : RunSteps[k] = p
    IN IF i = Len(RunSteps) THEN "running" ELSE RunSteps[i + 1]

AfterPrompt(q) ==
    CASE q = "dir_backup" -> "db_dump"
      [] q = "db_dump" -> "git_clone"
      [] q = "git_clone" -> "check_selected"
      [] q = "restart_webserver_flag" -> "verbose"
      [] q = "verbose" -> "db_check"
      [] q = "confirm_installation" -> AfterRunStep(q)

notRun == <<orchVars, memVars, progVars, subVars, gateVars, upVars, dryVars, repVars, stepVars, resVars>>

Exit(status, cause) ==
    /\ runPc' = "exited"
    /\ exit_status' = status
    /\ exitCause' = cause

\* ensure_config_exists: no config.ini ends the run, with or without a
\* template to copy
RunConfig ==
    /\ runPc = "config"
    /\ IF config_exists
       THEN runPc' = "root" /\ UNCHANGED <<exit_status, exitCause>>
       ELSE Exit(1, "no_config")
    /\ UNCHANGED <<notRun, side_effects, config_exists, template_exists, is_root, dbpass_blank,
                   answers, cancelled, db_attempts, db_failures, reprompted>>

\* if not self.dry_run and os.geteuid() != 0: sys.exit(1)
RunRoot ==
    /\ runPc = "root"
    /\ IF ~dry_run /\ ~is_root
       THEN Exit(1, "not_root")
       ELSE runPc' = "dir_backup" /\ UNCHANGED <<exit_status, exitCause>>
    /\ UNCHANGED <<notRun, side_effects, config_exists, template_exists, is_root, dbpass_blank,
                   answers, cancelled, db_attempts, db_failures, reprompted>>

\* one line typed at one prompt
RunAsk(q) ==
    /\ runPc = q
    /\ \E user_input \in Inputs :
          LET r == Confirm(user_input, Default(q))
          IN  /\ cancelled' = (cancelled \/ user_input = "c")
              /\ CASE r = "again" -> UNCHANGED <<runPc, answers, exit_status, exitCause>>
                   [] r = "exit" -> Exit(1, "cancel") /\ UNCHANGED answers
                   [] r = "no" /\ q = "confirm_installation" ->
                         /\ answers' = [answers EXCEPT ![q] = r]
                         /\ Exit(1, "declined")
                   [] OTHER ->
                         /\ answers' = [answers EXCEPT ![q] = r]
                         /\ runPc' = AfterPrompt(q)
                         /\ UNCHANGED <<exit_status, exitCause>>
    /\ UNCHANGED <<notRun, side_effects, config_exists, template_exists, is_root, dbpass_blank,
                   db_attempts, db_failures, reprompted>>

NoneSelected ==
    /\ answers["dir_backup"] # "yes"
    /\ answers["db_dump"] # "yes"
    /\ answers["git_clone"] # "yes"

\* if not dir_backup and not db_dump and not git_clone: sys.exit(1)
RunCheckSelected ==
    /\ runPc = "check_selected"
    /\ IF NoneSelected
       THEN Exit(1, "no_selection")
       ELSE runPc' = "restart_webserver_flag" /\ UNCHANGED <<exit_status, exitCause>>
    /\ UNCHANGED <<notRun, side_effects, config_exists, template_exists, is_root, dbpass_blank,
                   answers, cancelled, db_attempts, db_failures, reprompted>>

\* no dump selected, or a dry run: mysqlshow is not run
RunDbSkip ==
    /\ runPc = "db_check"
    /\ answers["db_dump"] # "yes" \/ dry_run
    /\ runPc' = "version"
    /\ UNCHANGED <<notRun, side_effects, config_exists, template_exists, is_root, dbpass_blank,
                   answers, cancelled, db_attempts, db_failures, reprompted,
                   exit_status, exitCause>>

\* the first mysqlshow
RunDbCheck ==
    /\ runPc = "db_check"
    /\ answers["db_dump"] = "yes" /\ ~dry_run
    /\ db_attempts' = db_attempts + 1
    /\ \E ok \in BOOLEAN :
          /\ db_failures' = IF ok THEN db_failures ELSE db_failures + 1
          /\ runPc' = IF ok THEN "version" ELSE "db_retry"
    /\ UNCHANGED <<notRun, side_effects, config_exists, template_exists, is_root, dbpass_blank,
                   answers, cancelled, reprompted, exit_status, exitCause>>

\* the inner except: sys.exit(1)
AfterRetryFailure == "exited"

\* except CalledProcessError: `while not dbpass.strip():` asks for the password
\* only if it is blank; then the second mysqlshow
RunDbRetry ==
    /\ runPc = "db_retry"
    /\ reprompted' = dbpass_blank
    /\ db_attempts' = db_attempts + 1
    /\ \E ok \in BOOLEAN :
          /\ db_failures' = IF ok THEN db_failures ELSE db_failures + 1
          /\ IF ok
             THEN runPc' = "version" /\ UNCHANGED <<exit_status, exitCause>>
             ELSE IF AfterRetryFailure = "exited"
             THEN Exit(1, "db")
             ELSE UNCHANGED <<runPc, exit_status, exitCause>>
    /\ UNCHANGED <<notRun, side_effects, config_exists, template_exists, is_root, dbpass_blank,
                   answers, cancelled>>

\* with git clone selected, a local build newer than the remote one: sys.exit(1)
RunVersion ==
    /\ runPc = "version"
    /\ \E local_newer \in BOOLEAN :
          IF answers["git_clone"] = "yes" /\ local_newer
          THEN Exit(1, "version")
          ELSE runPc' = RunSteps[1] /\ UNCHANGED <<exit_status, exitCause>>
    /\ UNCHANGED <<notRun, side_effects, config_exists, template_exists, is_root, dbpass_blank,
                   answers, cancelled, db_attempts, db_failures, reprompted>>

\* service_manager.restart_webserver("stop") and restart_database("restart"),
\* each if the operator asked for it (the database only with a dump selected)
RunServices ==
    /\ runPc = "services"
    /\ \E restart_db \in BOOLEAN :
          side_effects' = side_effects
              \cup (IF answers["restart_webserver_flag"] = "yes" THEN {"webserver_stop"} ELSE {})
              \cup (IF restart_db /\ answers["db_dump"] = "yes" THEN {"database_restart"} ELSE {})
    /\ runPc' = AfterRunStep("services")
    /\ UNCHANGED <<notRun, config_exists, template_exists, is_root, dbpass_blank,
                   answers, cancelled, db_attempts, db_failures, reprompted,
                   exit_status, exitCause>>

\* the selected operations are started, in threads or in main; db_dump starts
\* its two monitor threads
RunOperations ==
    /\ runPc = "operations"
    /\ side_effects' = side_effects \cup {"operation"}
              \cup (IF answers["db_dump"] = "yes" THEN {"monitor"} ELSE {})
    /\ runPc' = AfterRunStep("operations")
    /\ UNCHANGED <<notRun, config_exists, template_exists, is_root, dbpass_blank,
                   answers, cancelled, db_attempts, db_failures, reprompted,
                   exit_status, exitCause>>

\* the operations ran and main() returned
RunCompletes ==
    /\ runPc = "running"
    /\ Exit(0, "completed")
    /\ UNCHANGED <<notRun, side_effects, config_exists, template_exists, is_root, dbpass_blank,
                   answers, cancelled, db_attempts, db_failures, reprompted>>

\* an exception left an operation run by main, and with it main()
RunCrash ==
    /\ runPc = "running"
    /\ Exit(1, "crash")
    /\ UNCHANGED <<notRun, side_effects, config_exists, template_exists, is_root, dbpass_blank,
                   answers, cancelled, db_attempts, db_failures, reprompted>>

\* run_moodle_check found errors with force-continue off: the confirm call
\* raises, the exception leaves moodle_cli_upgrade and main
RunGateHalt ==
    /\ runPc = "running"
    /\ Exit(1, "gate")
    /\ UNCHANGED <<notRun, side_effects, config_exists, template_exists, is_root, dbpass_blank,
                   answers, cancelled, db_attempts, db_failures, reprompted>>

InitRun ==
    /\ dir_backup = FALSE
    /\ db_dump = FALSE
    /\ git_clone = FALSE
    /\ cli_upgrade = FALSE
    /\ restart_webserver_flag = FALSE
    /\ dry_run \in BOOLEAN
    /\ OrchStart
    /\ MemIdle
    /\ ProgIdle
    /\ SubIdle
    /\ GateIdle
    /\ UpIdle
    /\ DryIdle
    /\ RepIdle
    /\ StepIdle
    /\ ResIdle
    /\ config_exists \in BOOLEAN
    /\ template_exists \in BOOLEAN
    /\ is_root \in BOOLEAN
    /\ dbpass_blank \in BOOLEAN
    /\ runPc = "config"
    /\ answers = [q \in Prompts |-> "none"]
    /\ cancelled = FALSE
    /\ db_attempts = 0
    /\ db_failures = 0
    /\ reprompted = FALSE
    /\ exit_status = None
    /\ exitCause = "none"
    /\ side_effects = {}

NextRun ==
    \/ RunConfig
    \/ RunRoot
    \/ \E q \in Prompts : RunAsk(q)
    \/ RunCheckSelected
    \/ RunDbSkip
    \/ RunDbCheck
    \/ RunDbRetry
    \/ RunVersion
    \/ RunServices
    \/ RunOperations
    \/ RunCompletes
    \/ RunCrash
    \/ RunGateHalt

SpecRun == InitRun /\ [][NextRun]_vars

(***************************************************************************)
(* Properties of the exit status and the database check (SpecRun).         *)
(***************************************************************************)

C26_DbRetryOnceWithReprompt ==
    /\ db_attempts <= 2
    /\ db_attempts = 2 => reprompted
    /\ db_failures = 2 => (exit_status = 1 /\ exitCause = "db")
    /\ (db_failures < db_attempts /\ runPc = "exited") => exitCause # "db"

\* C32: a run that ends because nothing was selected, because the database
\* check failed twice, or because the operator cancelled at a prompt or
\* declined the final confirmation, has started no operation and no monitor
\* thread and has stopped or restarted no service.
C32_AbortsBeforeSideEffects ==
    exitCause \in {"no_selection", "db", "cancel", "declined"} => side_effects = {}

\* The operator asked for the webserver restart and for a dump, then declined
\* the final confirmation: nothing was touched.
C32_Witness ==
    /\ exitCause = "declined"
    /\ answers["restart_webserver_flag"] = "yes"
    /\ answers["db_dump"] = "yes"
    /\ db_attempts = 1
    /\ side_effects = {}

(***************************************************************************)
(* The external commands of one run of main(), the operations one after    *)
(* the other: which are executed and which are only logged.                *)
(***************************************************************************)

\* service_manager = ServiceManager(dry_run=False)
ServiceManagerDryRun == FALSE

notDry == <<orchVars, memVars, progVars, subVars, gateVars, upVars, runVars, repVars, stepVars, resVars>>

\* Commands behind an `if dry_run` of their component, and commands that are
\* run without one.
Commands(dry, guarded, unguarded) ==
    /\ executed' = executed \cup unguarded \cup (IF dry THEN {} ELSE guarded)
    /\ would_run' = would_run \cup (IF dry THEN guarded ELSE {})

DryStep(at, selected, next, dry, guarded, unguarded) ==
    /\ dryPc = at
    /\ dryPc' = next
    /\ IF selected THEN Commands(dry, guarded, unguarded)
                   ELSE UNCHANGED <<executed, would_run>>

\* main: the mysqlshow check before the dump
DryMysqlshow ==
    /\ DryStep("mysqlshow", db_dump, "web_stop", dry_run, {"mysqlshow"}, {})
    /\ UNCHANGED <<notDry, monitors_run, restart_database_flag, submodule_mode>>

\* service_manager.restart_webserver("stop")
DryWebStop ==
    /\ DryStep("web_stop", restart_webserver_flag, "db_restart",
               ServiceManagerDryRun, {"systemctl"}, {})
    /\ UNCHANGED <<notDry, monitors_run, restart_database_flag, submodule_mode>>

\* service_manager.restart_database("restart")
DryDbRestart ==
    /\ DryStep("db_restart", restart_database_flag, "backup",
               ServiceManagerDryRun, {"systemctl"}, {})
    /\ UNCHANGED <<notDry, monitors_run, restart_database_flag, submodule_mode>>

\* dir_backup
DryBackup ==
    /\ DryStep("backup", dir_backup, "dump", dry_run, {"rsync"}, {})
    /\ UNCHANGED <<notDry, monitors_run, restart_database_flag, submodule_mode>>

\* db_dump: the monitors are started before the `if self.dry_run` and run
\* `free` and, through get_database_size_mb, `mysql`
DryDump ==
    /\ DryStep("dump", db_dump, "clone", dry_run, {"mysqldump"}, {"mysql", "free"})
    /\ monitors_run' = (monitors_run \/ db_dump)
    /\ UNCHANGED <<notDry, restart_database_flag, submodule_mode>>

\* git_clone: clone, checkout, submodules, chown; restoring the submodules
\* from the backup reads their paths with `git config` first
DryClone ==
    /\ DryStep("clone", git_clone, "upgrade", dry_run,
               IF submodule_mode = "restore" THEN {"git", "cp", "chown"}
                                            ELSE {"git", "chown"},
               IF submodule_mode = "restore" THEN {"git"} ELSE {})
    /\ UNCHANGED <<notDry, monitors_run, restart_database_flag, submodule_mode>>

\* moodle_cli_upgrade: checks.php, maintenance.php, upgrade.php
DryUpgrade ==
    /\ DryStep("upgrade", cli_upgrade, "web_start", dry_run, {"php"}, {})
    /\ UNCHANGED <<notDry, monitors_run, restart_database_flag, submodule_mode>>

\* service_manager.restart_webserver("start")
DryWebStart ==
    /\ DryStep("web_start", restart_webserver_flag, "done",
               ServiceManagerDryRun, {"systemctl"}, {})
    /\ UNCHANGED <<notDry, monitors_run, restart_database_flag, submodule_mode>>

InitDry ==
    /\ dir_backup \in BOOLEAN
    /\ db_dump \in BOOLEAN
    /\ git_clone \in BOOLEAN
    /\ dir_backup \/ db_dump \/ git_clone
    /\ cli_upgrade \in BOOLEAN
    /\ restart_webserver_flag \in BOOLEAN
    /\ dry_run \in BOOLEAN
    /\ OrchStart
    /\ MemIdle
    /\ ProgIdle
    /\ SubIdle
    /\ GateIdle
    /\ UpIdle
    /\ RunIdle
    /\ RepIdle
    /\ StepIdle
    /\ ResIdle
    /\ dryPc = "mysqlshow"
    /\ executed = {}
    /\ would_run = {}
    /\ monitors_run = FALSE
    /\ restart_database_flag \in BOOLEAN
    /\ submodule_mode \in {"sync", "restore", "none"}

NextDry ==
    \/ DryMysqlshow
    \/ DryWebStop
    \/ DryDbRestart
    \/ DryBackup
    \/ DryDump
    \/ DryClone
    \/ DryUpgrade
    \/ DryWebStart

SpecDry == InitDry /\ [][NextDry]_vars

\* C27: in a dry run no external command is executed, whatever is selected and
\* whatever the options are, and a selected dump still starts and stops its
\* monitors.
C27_DryRunExecutesNothing ==
    dry_run =>
        /\ executed = {}
        /\ (db_dump /\ dryPc \in {"clone", "upgrade", "web_start", "done"})
              => monitors_run

(***************************************************************************)
(* The report at the end of main(): the runtime of each operation as the   *)
(* manager recorded it, the wall-clock runtime since start_time, and the   *)
(* time saved by running operations concurrently.                          *)
(***************************************************************************)

\* Seconds an operation can have recorded, and seconds main() can have taken.
RuntimeSamples == {0, 90, 120, 150}
WallSamples == {160, 400}

notRep == <<cfgVars, pc, mainStep, exit_code, webserver, reported, agentVars, opVars,
            treeExists, deployPc, dumpVars, envVars, memVars, progVars, subVars,
            gateVars, upVars, runVars, dryVars, stepVars, resVars>>

\* if runtime_x: ... else: runtime_x = 0
OrZero(r) == IF Truthy(r) THEN r ELSE 0

\* The difference, with a negative one raised to zero.
MutTimeSavedClamped(rb, rd, rc, wall) ==
    IF OrZero(rb) + OrZero(rd) + OrZero(rc) - wall < 0 THEN 0
    ELSE OrZero(rb) + OrZero(rd) + OrZero(rc) - wall

\* runtime_backup + runtime_dump + runtime_clone - runtime
TimeSaved(rb, rd, rc, wall) == OrZero(rb) + OrZero(rd) + OrZero(rc) - wall

\* The branch of main() taken: multithreading = True in each of the three
\* branches that start threads, left False in the else branch.
RepPlan ==
    /\ repPc = "plan"
    /\ multithreading' = IF IsThreaded(dir_backup, db_dump, git_clone) THEN TRUE
                         ELSE multithreading
    /\ repPc' = "ops"
    /\ UNCHANGED <<notRep, runtime_backup, runtime_dump, runtime_clone, runtime,
                   runtime_logged, saved_logged, time_saved>>

\* What an operation leaves in its runtime attribute: None when it was not
\* selected; seconds when it ran to one of the places that record them; None
\* when it returned or raised before.
Recordable(sel) == IF sel THEN RuntimeSamples \cup {None} ELSE {None}

\* The operations have run (and the CLI upgrade and the webserver start after
\* them): runtime = int(time.time() - start_time), and the manager's attributes.
RepOps ==
    /\ repPc = "ops"
    /\ runtime_backup' \in Recordable(dir_backup)
    /\ runtime_dump' \in Recordable(db_dump)
    /\ runtime_clone' \in Recordable(git_clone)
    /\ runtime' \in WallSamples
    /\ repPc' = "report"
    /\ UNCHANGED <<notRep, multithreading, runtime_logged, saved_logged, time_saved>>

\* The log lines of the report.
RepReport ==
    /\ repPc = "report"
    /\ runtime_logged' = {o \in Ops : \/ o = "Backup" /\ Truthy(runtime_backup)
                                      \/ o = "Dump" /\ Truthy(runtime_dump)
                                      \/ o = "Deploy" /\ Truthy(runtime_clone)}
    /\ saved_logged' = multithreading
    /\ time_saved' = IF multithreading
                     THEN TimeSaved(runtime_backup, runtime_dump, runtime_clone, runtime)
                     ELSE time_saved
    /\ repPc' = "done"
    /\ UNCHANGED <<notRep, multithreading, runtime_backup, runtime_dump,
                   runtime_clone, runtime>>

InitRep ==
    /\ dir_backup \in BOOLEAN
    /\ db_dump \in BOOLEAN
    /\ git_clone \in BOOLEAN
    /\ dir_backup \/ db_dump \/ git_clone
    /\ cli_upgrade = FALSE
    /\ restart_webserver_flag = FALSE
    /\ dry_run = FALSE
    /\ OrchStart
    /\ MemIdle
    /\ PartsIdle

NextRep ==
    \/ RepPlan
    \/ RepOps
    \/ RepReport

SpecRep == InitRep /\ [][NextRep]_vars

\* The seconds the manager recorded for an operation, none recorded counting
\* as zero.
Recorded(o) ==
    LET r == CASE o = "Backup" -> runtime_backup
               [] o = "Dump" -> runtime_dump
               [] o = "Deploy" -> runtime_clone
    IN IF r = None THEN 0 ELSE r

RECURSIVE SumRecorded(_)
SumRecorded(S) ==
    IF S = {} THEN 0
    ELSE LET o == CHOOSE x \in S : TRUE IN Recorded(o) + SumRecorded(S \ {o})

C29_TimeSavedIffConcurrent ==
    repPc = "done" =>
        /\ saved_logged <=> ("Dump" \in Selected /\ Selected # {"Dump"})
        /\ Cardinality(Selected) = 1 => ~saved_logged
        /\ Selected = {"Backup", "Deploy"} => ~saved_logged

\* The report of the sequential run of Backup and Deploy.
C29_Witness ==
    /\ repPc = "done"
    /\ Selected = {"Backup", "Deploy"}
    /\ ~saved_logged

(***************************************************************************)
(* moodle_cli_upgrade as a whole: the check before, maintenance mode, the  *)
(* upgrade subprocess, and the check after.                                *)
(***************************************************************************)

notStep == <<orchVars, memVars, progVars, subVars, gateVars, upVars, runVars,
             dryVars, repVars, resVars>>

\* Exit codes of upgrade.php.
UpgradeCodes == {0, 1, 2}

Happened(e) == events' = Append(events, e)

\* if self.dry_run: two log lines, nothing run
StepStart ==
    /\ stepPc = "start"
    /\ stepPc' = IF dry_run THEN "finished" ELSE "pre"
    /\ UNCHANGED <<notStep, moodle_maintenance_mode_flag, stepForce, events,
                   maintenance, step_returncode, step_failed>>

\* run_moodle_check: it returns, or, error found and not force_continue, the
\* confirmation in it ends the function (the call raises, or sys.exit(1) after
\* a "no"); neither is caught in moodle_cli_upgrade, where both calls stand
\* outside the try.
StepCheck(at, event, next) ==
    /\ stepPc = at
    /\ Happened(event)
    /\ \E err \in BOOLEAN :
         stepPc' = IF GateTriggers(err, stepForce) THEN "left" ELSE next
    /\ UNCHANGED <<notStep, moodle_maintenance_mode_flag, stepForce, maintenance,
                   step_returncode, step_failed>>

StepPreCheck == StepCheck("pre", "pre_check", "maint_on")

\* moodle_maintenance_mode(enable): maintenance.php run with check=True, a
\* nonzero exit caught and logged.
StepMaintenance(at, event, mode, next) ==
    /\ stepPc = at
    /\ IF moodle_maintenance_mode_flag
       THEN /\ Happened(event)
            /\ \E ok \in BOOLEAN : maintenance' = IF ok THEN mode ELSE maintenance
       ELSE UNCHANGED <<events, maintenance>>
    /\ stepPc' = next

StepMaintOn ==
    /\ StepMaintenance("maint_on", "maint_on", "on", "popen")
    /\ UNCHANGED <<notStep, moodle_maintenance_mode_flag, stepForce,
                   step_returncode, step_failed>>

\* except Exception: upgrade_failed = True, and on to the check after.
StepCaught ==
    /\ step_failed' = TRUE
    /\ stepPc' = "post"

\* subprocess.Popen(['php', upgrade.php, '--non-interactive']): the process is
\* started, or the call raises (no memory, no file descriptor left).
StepPopen ==
    /\ stepPc = "popen"
    /\ Happened("upgrade")
    /\ \E started \in BOOLEAN :
         IF started
         THEN stepPc' = "read" /\ step_failed' = step_failed
         ELSE StepCaught
    /\ UNCHANGED <<notStep, moodle_maintenance_mode_flag, stepForce, maintenance,
                   step_returncode>>

\* The select loop, the drain and process.wait(): the process exits with a
\* code, or reading its output raises.
StepRead ==
    /\ stepPc = "read"
    /\ \/ \E rc \in UpgradeCodes :
            /\ step_returncode' = rc
            /\ stepPc' = "maint_off"
            /\ step_failed' = step_failed
       \/ StepCaught /\ step_returncode' = step_returncode
    /\ UNCHANGED <<notStep, moodle_maintenance_mode_flag, stepForce, events,
                   maintenance>>

\* moodle_maintenance_mode(False), then `if process.returncode != 0`
StepMaintOff ==
    /\ StepMaintenance("maint_off", "maint_off", "off", "post")
    /\ step_failed' = (step_failed \/ step_returncode # 0)
    /\ UNCHANGED <<notStep, moodle_maintenance_mode_flag, stepForce, step_returncode>>

StepPostCheck == StepCheck("post", "post_check", "finished")

InitStep ==
    /\ dir_backup = FALSE
    /\ db_dump = FALSE
    /\ git_clone = FALSE
    /\ cli_upgrade = TRUE
    /\ restart_webserver_flag = FALSE
    /\ dry_run \in BOOLEAN
    /\ OrchStart
    /\ MemIdle
    /\ ProgIdle
    /\ SubIdle
    /\ GateIdle
    /\ UpIdle
    /\ RunIdle
    /\ DryIdle
    /\ RepIdle
    /\ ResIdle
    /\ stepPc = "start"
    /\ moodle_maintenance_mode_flag \in BOOLEAN
    /\ stepForce \in BOOLEAN
    /\ events = << >>
    /\ maintenance = "off"
    /\ step_returncode = None
    /\ step_failed = FALSE

NextStep ==
    \/ StepStart
    \/ StepPreCheck
    \/ StepMaintOn
    \/ StepPopen
    \/ StepRead
    \/ StepMaintOff
    \/ StepPostCheck

SpecStep == InitStep /\ [][NextStep]_vars

StepEnded == stepPc \in {"finished", "left"}

StepOrder == <<"pre_check", "maint_on", "upgrade", "maint_off", "post_check">>

Rank(e) == CHOOSE i \in 1 .. Len(StepOrder) : StepOrder[i] = e

Did(e) == \E i \in 1 .. Len(events) : events[i] = e

\* C31 (as claimed): the steps of a CliUpgrade that is not a dry run happen in
\* the order check before, maintenance on, upgrade, maintenance off, check
\* after, the two maintenance steps when requested; a halt of the check before
\* leaves the upgrade not started and maintenance mode not enabled; the check
\* after runs once the upgrade has been run, failed or not.
C31_StepsInOrder ==
    /\ \A i, j \in 1 .. Len(events) : i < j => Rank(events[i]) < Rank(events[j])
    /\ Did("upgrade") => Did("pre_check") /\ (moodle_maintenance_mode_flag => Did("maint_on"))
    /\ Did("post_check") =>
          Did("upgrade") /\ (moodle_maintenance_mode_flag => Did("maint_off"))
    /\ (stepPc = "left" /\ ~Did("post_check")) =>
          ~Did("upgrade") /\ ~Did("maint_on") /\ maintenance = "off"
    /\ (StepEnded /\ Did("upgrade")) => Did("post_check")

\* C33 (as claimed): when the upgrade step ends with maintenance mode enabled
\* by it, on whichever path, it has at least run the command that disables it.
C33_MaintenanceDisabledOnEveryPath ==
    (StepEnded /\ maintenance = "on") => Did("maint_off")

(***************************************************************************)
(* git_clone from its submodule block on, with both ways of getting the    *)
(* submodules: syncing them, or copying them from the latest backup.       *)
(***************************************************************************)

notRes == <<orchVars, memVars, progVars, gateVars, upVars, runVars, dryVars,
            repVars, stepVars>>

\* `if sync_submodules:` ... `elif restore_submodules_from_backup:` ...
ResBranch ==
    /\ subPc = "branch"
    /\ IF sync_submodules
       THEN subPc' = "sync" /\ entered' = entered \cup {"sync"}
       ELSE IF restore_submodules_from_backup
       THEN subPc' = "folder" /\ entered' = entered \cup {"restore"}
       ELSE subPc' = "rest" /\ entered' = entered
    /\ UNCHANGED <<notRes, submodule_paths, subIdx, submodules_success,
                   submodules_failed, failed_submodules, attempts, updateFailed,
                   syncFailed, restRaised, sync_submodules,
                   restore_submodules_from_backup, full_backup, copied, copyFailed,
                   folderRaised>>

\* backup_folder = max(glob.glob(...), key=os.path.getmtime): for a full backup
\* glob.glob is called with two positional arguments and raises TypeError; for
\* a partial one max() raises ValueError when no backup folder matches.
ResFolder ==
    /\ subPc = "folder"
    /\ \E matches \in BOOLEAN :
          LET raises == full_backup \/ ~matches
          IN  /\ folderRaised' = raises
              /\ subPc' = IF raises THEN "raised" ELSE "gitmodules"
    /\ UNCHANGED <<notRes, submodule_paths, subIdx, submodules_success,
                   submodules_failed, failed_submodules, attempts, updateFailed,
                   syncFailed, restRaised, sync_submodules,
                   restore_submodules_from_backup, full_backup, entered, copied,
                   copyFailed>>

\* git config --file .gitmodules --get-regexp path: the paths, or, on a
\* nonzero exit, an error logged and no path
ResGitmodules ==
    /\ subPc = "gitmodules"
    /\ \E n \in 0 .. MaxSubmodules : submodule_paths' = [i \in 1 .. n |-> i]
    /\ subPc' = "copy"
    /\ UNCHANGED <<notRes, subIdx, submodules_success, submodules_failed,
                   failed_submodules, attempts, updateFailed, syncFailed, restRaised,
                   resVars>>

\* The loop goes on to the next submodule after a copy that failed.
MutCopyGoesOn(ok) ==
    /\ subIdx' = subIdx + 1
    /\ subPc' = subPc

\* The for loop stands inside the try: CalledProcessError ends it
AfterCopy(ok) ==
    /\ subIdx' = IF ok THEN subIdx + 1 ELSE subIdx
    /\ subPc' = IF ok THEN subPc ELSE "rest"

\* one iteration: cp -r backup_folder/submodule clone_path/dirname(submodule)
ResCopy ==
    /\ subPc = "copy"
    /\ subIdx <= Len(submodule_paths)
    /\ copied' = Append(copied, submodule_paths[subIdx])
    /\ \E ok \in BOOLEAN :
          /\ AfterCopy(ok)
          /\ copyFailed' = IF ok \/ copyFailed # None THEN copyFailed
                           ELSE submodule_paths[subIdx]
    /\ UNCHANGED <<notRes, submodule_paths, submodules_success, submodules_failed,
                   failed_submodules, attempts, updateFailed, syncFailed, restRaised,
                   sync_submodules, restore_submodules_from_backup, full_backup,
                   entered, folderRaised>>

\* every submodule copied
ResCopied ==
    /\ subPc = "copy"
    /\ subIdx > Len(submodule_paths)
    /\ subPc' = "rest"
    /\ UNCHANGED <<notRes, submodule_paths, subIdx, submodules_success,
                   submodules_failed, failed_submodules, attempts, updateFailed,
                   syncFailed, restRaised, resVars>>

InitRes ==
    /\ dir_backup = FALSE
    /\ db_dump = FALSE
    /\ git_clone = TRUE
    /\ cli_upgrade = FALSE
    /\ restart_webserver_flag = FALSE
    /\ dry_run = FALSE
    /\ OrchStart
    /\ MemIdle
    /\ ProgIdle
    /\ GateIdle
    /\ UpIdle
    /\ RunIdle
    /\ DryIdle
    /\ RepIdle
    /\ StepIdle
    /\ subPc = "branch"
    /\ submodule_paths = << >>
    /\ subIdx = 1
    /\ submodules_success = 0
    /\ submodules_failed = 0
    /\ failed_submodules = << >>
    /\ attempts = [p \in SubmodulePaths |-> 0]
    /\ updateFailed = {}
    /\ syncFailed = FALSE
    /\ restRaised = FALSE
    /\ sync_submodules \in BOOLEAN
    /\ restore_submodules_from_backup \in BOOLEAN
    /\ full_backup \in BOOLEAN
    /\ entered = {}
    /\ copied = << >>
    /\ copyFailed = None
    /\ folderRaised = FALSE

NextRes ==
    \/ ResBranch
    \/ SubSync
    \/ SubStatus
    \/ SubUpdate
    \/ SubSummary
    \/ ResFolder
    \/ ResGitmodules
    \/ ResCopy
    \/ ResCopied
    \/ SubRest

SpecRes == InitRes /\ [][NextRes]_vars

\* C38: the submodules are restored from the backup only with syncing off and
\* restoring asked for, never in a run that also syncs them; there the first
\* copy that fails is the last copy run, no success or failure counter
\* changes, and git_clone goes on to its remaining steps, ending raised only
\* if one of those raised.
C38_RestorePath ==
    /\ entered # {"sync", "restore"}
    /\ "restore" \in entered =>
          /\ ~sync_submodules /\ restore_submodules_from_backup
          /\ submodules_success = 0 /\ submodules_failed = 0
          /\ failed_submodules = << >>
    /\ "restore" \notin entered => copied = << >>
    /\ copyFailed # None =>
          /\ copied[Len(copied)] = copyFailed
          /\ subPc \in {"rest", "completed", "raised"}
          /\ subPc = "raised" => restRaised

\* Three submodules in the backup, the copy of the second failed, the third
\* was not copied, and git_clone completed.
C38_Witness ==
    /\ "restore" \in entered
    /\ Len(submodule_paths) = 3
    /\ copied = <<1, 2>>
    /\ copyFailed = 2
    /\ subPc = "completed"

====
